---- MODULE Spec2Model ----
(***************************************************************************)
(* Model of the numerical core of Math Playground: the histogram engine,   *)
(* the point generators, the expression evaluator, the distribution        *)
(* functions, the population and sample-mean generators, the discrete      *)
(* Fourier transform and the waveform generators.                          *)
(*                                                                         *)
(* A JavaScript number is modelled as a pair <<n, d>>: a finite value is   *)
(* the rational n/d in lowest terms with d > 0; <<1,0>> is Infinity,       *)
(* <<-1,0>> is -Infinity and <<0,0>> is NaN.  Finite arithmetic is exact   *)
(* (no rounding); the IEEE rules for the three special values are kept.    *)
(* The sign of zero is not modelled: a zero divisor is +0.                 *)
(***************************************************************************)
EXTENDS Integers, Sequences, FiniteSets, TLC

VARIABLES
    pc,          \* position of the modelled call: "call" before, "loop" within, "done" after;
                 \* of a page or store: "mounted", "ready", "hung"
    hData,       \* generateHistogram: data
    hBins,       \* generateHistogram: bins
    hMin,        \* generateHistogram: min (Undefined when omitted)
    hMax,        \* generateHistogram: max (Undefined when omitted)
    hPoints,     \* generateHistogram: the returned Point[]
    range,       \* generateFunctionPoints, generateTangentLine: range {min, max, step}
    fpF,         \* generateFunctionPoints: f
    fpPoints,    \* generateFunctionPoints: the returned Point[]
    fpRaised,    \* generateFunctionPoints: whether the call raised instead of returning
    fpCalls,     \* generateFunctionPoints: the values of x at which f was called, in order
    tF,          \* generateTangentLine: what f returns at x0 - h, x0 and x0 + h
    tX0,         \* generateTangentLine: x0
    tPoints,     \* generateTangentLine: the returned Point[]
    tRaised,     \* generateTangentLine: whether the call raised instead of returning
    expression,  \* parseFunction: expression, a string as its sequence of characters
    compiled,    \* parseFunction: whether compile(normalized) returned (it threw otherwise)
    parsed,      \* parseFunction: the returned MathFunction
    evalX,       \* MathFunction.evaluate: x
    evalOut,     \* MathFunction.evaluate: what node.evaluate returned (or Throw)
    evalResult,  \* MathFunction.evaluate: the returned number, or that it raised
    bN,          \* binomialPMF: n
    bP,          \* binomialPMF: p
    bK,          \* binomialPMF: k of the last call
    bPmf,        \* binomialPMF: the value the last call returned
    bSeries,     \* the values binomialPMF(k, n, p) returned for k = 0, 1, ... in turn
    dType,       \* generateDistributionData: type
    dParams,     \* generateDistributionData: params, a map from the keys it has to numbers
    dRange,      \* generateDistributionData: range {min, max, step}
    dUsed,       \* generateDistributionData: the constants of the branch taken (mean, stdDev, n, p, ...)
    dPoints,     \* generateDistributionData: the returned Point[]
    popType,     \* generatePopulation: type
    popSize,     \* generatePopulation: size
    popParams,   \* generatePopulation: params, a map from the keys it has to numbers
    popUsed,     \* generatePopulation: the constants of the branch taken (min, max, mean, ...)
    population,  \* generatePopulation: the returned number[]
    smPopulation,\* generateSampleMeans: population
    sampleSize,  \* generateSampleMeans: sampleSize
    numSamples,  \* generateSampleMeans: numSamples
    sampleMeans, \* generateSampleMeans: the returned number[]
    signal,      \* dft: signal
    dftResult,   \* dft: the returned ComplexNumber[]
    wType,       \* which generator is called: "square", "triangle" or "sawtooth"
    frequency,   \* generateSquareWave, generateTriangleWave, generateSawtoothWave: frequency
    amplitude,   \* generateSquareWave, generateTriangleWave, generateSawtoothWave: amplitude
    samples,     \* generateSquareWave, generateTriangleWave, generateSawtoothWave: samples
    wSines,      \* generateSquareWave: the sign of value = Math.sin(...) at each i
    wSignal,     \* generateSquareWave, generateTriangleWave, generateSawtoothWave: the returned number[]
    dvF,         \* calculateDerivative: f
    dvX,         \* calculateDerivative: x
    dvH,         \* calculateDerivative: h
    dvResult,    \* calculateDerivative: the returned number, or Throw when f threw
    eX,          \* exponentialPDF: x
    eLambda,     \* exponentialPDF: lambda
    ePdf,        \* exponentialPDF: the returned number
    signalConfig,\* visualization store: signalConfig {type, frequency, amplitude, harmonics}
    signalCase,  \* Fourier page: the case of the switch that produced the held signal (NoCase: none)
    showHarmonics,\* Fourier page: showHarmonics
    selectedHarmonic,\* Fourier page: selectedHarmonic
    harmonicsData,\* Fourier page: harmonicsData, as the set of the series it holds
    cltParams,   \* visualization store: cltParams {populationType, sampleSize, numSamples, populationSize}
    cltPopulation,\* Central Limit page: population
    cltSampleMeans,\* Central Limit page: sampleMeans
    isSimulating,\* Central Limit page: isSimulating
    calculusParams,\* visualization store: calculusParams {function, point, range {min, max, step}}
    cN,          \* binomialCoefficient: n
    cK,          \* binomialCoefficient: k
    cI,          \* binomialCoefficient: the loop variable i
    cResult,     \* binomialCoefficient: result, and the value returned
    distributionParams,\* visualization store: distributionParams {type, mean, stdDev}
    isAnimating, \* visualization store: isAnimating
    selectedVisualization,\* visualization store: selectedVisualization
    lastCall,    \* the setter called last and its argument
    storeCalls,  \* the number of setter calls made
    theme,       \* settings store: theme
    animationsEnabled,\* settings store: animationsEnabled
    decimalPlaces,\* settings store: decimalPlaces
    chartQuality,\* settings store: chartQuality
    maxDataPoints,\* settings store: maxDataPoints
    dbWait,      \* debounce: wait
    dbNow,       \* debounce: the time
    dbTimers,    \* debounce: the timers set and neither run nor cleared
    dbTimeout,   \* debounce: timeout, the id of the timer set last (0: undefined)
    dbCalls,     \* debounce: the calls of the wrapper made so far
    dbInvoked,   \* debounce: the invocations of func made so far
    thLimit,     \* throttle: limit
    thNow,       \* throttle: the time
    inThrottle,  \* throttle: inThrottle (undefined at first, which the test reads as false)
    thTimers,    \* throttle: the reset timers set and not run
    thLog        \* throttle: the calls of the wrapper, the invocations of func and the resets so far

histVars == <<hData, hBins, hMin, hMax, hPoints>>
fpVars == <<range, fpF, fpPoints, fpRaised, fpCalls>>
tanVars == <<tF, tX0, tPoints, tRaised>>
parseVars == <<expression, compiled, parsed, evalX, evalOut, evalResult>>
binVars == <<bN, bP, bK, bPmf, bSeries>>
distVars == <<dType, dParams, dRange, dUsed, dPoints>>
popVars == <<popType, popSize, popParams, popUsed, population>>
smVars == <<smPopulation, sampleSize, numSamples, sampleMeans>>
dftVars == <<signal, dftResult>>
waveVars == <<wType, frequency, amplitude, samples, wSines, wSignal>>
derivVars == <<dvF, dvX, dvH, dvResult>>
expVars == <<eX, eLambda, ePdf>>
fourierVars == <<signalConfig, signalCase, showHarmonics, selectedHarmonic, harmonicsData>>
cltVars == <<cltParams, cltPopulation, cltSampleMeans, isSimulating>>
calcVars == <<calculusParams>>
coefVars == <<cN, cK, cI, cResult>>
storeVars == <<distributionParams, isAnimating, selectedVisualization, lastCall, storeCalls>>
settingsVars == <<theme, animationsEnabled, decimalPlaces, chartQuality, maxDataPoints>>
debounceVars == <<dbWait, dbNow, dbTimers, dbTimeout, dbCalls, dbInvoked>>
throttleVars == <<thLimit, thNow, inThrottle, thTimers, thLog>>
vars == <<pc, histVars, fpVars, tanVars, parseVars, binVars, distVars, popVars, smVars, dftVars, waveVars, derivVars, expVars, fourierVars, cltVars, calcVars, coefVars, storeVars, settingsVars, debounceVars, throttleVars>>

(***************************************************************************)
(* Bounds of the model.                                                    *)
(***************************************************************************)
MaxData == 3
MaxBins == 3
MaxValue == 2
MaxX == 1
MaxPieces == 3
MaxN == 6

(***************************************************************************)
(* JavaScript numbers.                                                     *)
(***************************************************************************)
NaN == <<0, 0>>
Infinity == <<1, 0>>
NegInfinity == <<-1, 0>>
Undefined == <<>>

Abs(i) == IF i < 0 THEN -i ELSE i
Sign(i) == IF i < 0 THEN -1 ELSE IF i > 0 THEN 1 ELSE 0

RECURSIVE GCD(_, _)
GCD(a, b) == IF b = 0 THEN a ELSE GCD(b, a % b)

\* the finite number n/d (d # 0) in lowest terms
Rat(n, d) ==
    LET g == GCD(Abs(n), Abs(d))
        s == IF d < 0 THEN -1 ELSE 1
    IN  <<s * (n \div g), s * (d \div g)>>

Num(i) == <<i, 1>>

isNaN(a) == a = NaN
isFinite(a) == a[2] # 0
IsInf(a) == a[2] = 0 /\ a[1] # 0
IsZero(a) == a[2] # 0 /\ a[1] = 0

Neg(a) == <<-a[1], a[2]>>

Add(a, b) ==
    IF isNaN(a) \/ isNaN(b) THEN NaN
    ELSE IF IsInf(a) THEN (IF IsInf(b) /\ b # a THEN NaN ELSE a)
    ELSE IF IsInf(b) THEN b
    ELSE Rat(a[1] * b[2] + b[1] * a[2], a[2] * b[2])

Sub(a, b) == Add(a, Neg(b))

Mul(a, b) ==
    IF isNaN(a) \/ isNaN(b) THEN NaN
    ELSE IF IsInf(a) \/ IsInf(b)
         THEN (IF IsZero(a) \/ IsZero(b) THEN NaN
               ELSE <<Sign(a[1]) * Sign(b[1]), 0>>)
    ELSE Rat(a[1] * b[1], a[2] * b[2])

Div(a, b) ==
    IF isNaN(a) \/ isNaN(b) THEN NaN
    ELSE IF IsInf(a) THEN (IF IsInf(b) THEN NaN
                           ELSE IF b[1] < 0 THEN Neg(a) ELSE a)
    ELSE IF IsInf(b) THEN Num(0)
    ELSE IF IsZero(b) THEN (IF IsZero(a) THEN NaN ELSE <<Sign(a[1]), 0>>)
    ELSE Rat(a[1] * b[2], a[2] * b[1])

\* a < b and a <= b as JavaScript compares numbers: false when either is NaN
Lt(a, b) ==
    /\ ~isNaN(a) /\ ~isNaN(b)
    /\ IF IsInf(a) THEN a = NegInfinity /\ b # NegInfinity
       ELSE IF IsInf(b) THEN b = Infinity
       ELSE a[1] * b[2] < b[1] * a[2]

Leq(a, b) == ~isNaN(a) /\ ~isNaN(b) /\ (a = b \/ Lt(a, b))

\* Math.floor
Floor(a) == IF isFinite(a) THEN Num(a[1] \div a[2]) ELSE a

\* Math.ceil
Ceil(a) == Neg(Floor(Neg(a)))

\* Math.min and Math.max of two numbers
MathMin(a, b) == IF isNaN(a) \/ isNaN(b) THEN NaN ELSE IF Lt(b, a) THEN b ELSE a
MathMax(a, b) == IF isNaN(a) \/ isNaN(b) THEN NaN ELSE IF Lt(a, b) THEN b ELSE a

\* Math.min(...data) and Math.max(...data): Infinity and -Infinity when empty
RECURSIVE MathMinAll(_)
MathMinAll(s) == IF s = <<>> THEN Infinity ELSE MathMin(Head(s), MathMinAll(Tail(s)))
RECURSIVE MathMaxAll(_)
MathMaxAll(s) == IF s = <<>> THEN NegInfinity ELSE MathMax(Head(s), MathMaxAll(Tail(s)))

(***************************************************************************)
(* generateHistogram(data, bins, min?, max?)                               *)
(***************************************************************************)
actualMin(data, min) == IF min # Undefined THEN min ELSE MathMinAll(data)
actualMax(data, max) == IF max # Undefined THEN max ELSE MathMaxAll(data)
binWidth(data, bins, min, max) ==
    Div(Sub(actualMax(data, max), actualMin(data, min)), Num(bins))

\* the guard of the forEach body
InRange(value, data, min, max) ==
    Leq(actualMin(data, min), value) /\ Leq(value, actualMax(data, max))

binIndexNoClamp(value, data, bins, min, max) ==
    Floor(Div(Sub(value, actualMin(data, min)), binWidth(data, bins, min, max)))

binIndex(value, data, bins, min, max) ==
    MathMin(Floor(Div(Sub(value, actualMin(data, min)),
                      binWidth(data, bins, min, max))),
            Num(bins - 1))

\* histogram[binIndex]++ : an index that is no element of the array (NaN)
\* writes a property of the array object and leaves its elements alone
Increment(histogram, idx) ==
    IF isFinite(idx) /\ idx[2] = 1 /\ idx[1] \in DOMAIN histogram
    THEN [histogram EXCEPT ![idx[1]] = @ + 1]
    ELSE histogram

\* the array after data.forEach over the first k values
RECURSIVE histogramAfter(_, _, _, _, _)
histogramAfter(k, data, bins, min, max) ==
    IF k = 0 THEN [i \in 0..(bins - 1) |-> 0]
    ELSE LET prev == histogramAfter(k - 1, data, bins, min, max)
             value == data[k]
         IN  IF InRange(value, data, min, max)
             THEN Increment(prev, binIndex(value, data, bins, min, max))
             ELSE prev

generateHistogram(data, bins, min, max) ==
    LET histogram == histogramAfter(Len(data), data, bins, min, max)
        aMin == actualMin(data, min)
        bw == binWidth(data, bins, min, max)
    IN  [j \in 1..bins |->
            [x |-> Add(Add(aMin, Mul(Num(j - 1), bw)), Div(bw, Num(2))),
             y |-> Num(histogram[j - 1])]]

(***************************************************************************)
(* Inputs.                                                                 *)
(***************************************************************************)
RECURSIVE SeqsUpTo(_, _)
SeqsUpTo(S, n) ==
    IF n = 0 THEN {<<>>}
    ELSE LET shorter == SeqsUpTo(S, n - 1)
         IN  shorter \cup {Append(s, v) : s \in {t \in shorter : Len(t) = n - 1}, v \in S}

Values == {Num(i) : i \in 0..MaxValue} \cup {Rat(1, 2)}

NoRange == [min |-> Num(0), max |-> Num(0), step |-> Num(1)]
FpIdle ==
    range = NoRange /\ fpF = "x" /\ fpPoints = <<>> /\ fpRaised = FALSE /\ fpCalls = <<>>

BinIdle == bN = 0 /\ bP = Num(0) /\ bK = 0 /\ bPmf = NaN /\ bSeries = <<>>

NotParsed == [raised |-> FALSE, expression |-> <<>>, evaluate |-> "none", node |-> <<>>]
NotEvaluated == [raised |-> FALSE, value |-> NaN]
ParseIdle ==
    /\ expression = <<>> /\ compiled = FALSE /\ parsed = NotParsed
    /\ evalX = NaN /\ evalOut = NaN /\ evalResult = NotEvaluated

TanIdle ==
    /\ tF = [minus |-> Num(0), at |-> Num(0), plus |-> Num(0)]
    /\ tX0 = Num(0) /\ tPoints = <<>> /\ tRaised = FALSE

\* a parameter map with no key
NoParams == [key \in {} |-> NaN]

DistIdle ==
    dType = "normal" /\ dParams = NoParams /\ dRange = NoRange /\ dUsed = NoParams /\ dPoints = <<>>

PopIdle ==
    popType = "uniform" /\ popSize = 0 /\ popParams = NoParams /\ popUsed = NoParams /\ population = <<>>

SmIdle == smPopulation = <<>> /\ sampleSize = 0 /\ numSamples = 0 /\ sampleMeans = <<>>

DftIdle == signal = <<>> /\ dftResult = <<>>

WaveIdle == wType = "square" /\ frequency = Num(1) /\ amplitude = Num(1) /\ samples = 0 /\ wSines = <<>> /\ wSignal = <<>>

DerivIdle == dvF = "x" /\ dvX = Num(0) /\ dvH = Num(1) /\ dvResult = NaN

ExpIdle == eX = Num(0) /\ eLambda = Num(1) /\ ePdf = NaN

\* strings are the sequences of their characters
Square == <<"s", "q", "u", "a", "r", "e">>
Triangle == <<"t", "r", "i", "a", "n", "g", "l", "e">>
Sawtooth == <<"s", "a", "w", "t", "o", "o", "t", "h">>
Custom == <<"c", "u", "s", "t", "o", "m">>

\* the switch of the effect matched no case
NoCase == <<>>

InitialSignalConfig ==
    [type |-> Square, frequency |-> Num(1), amplitude |-> Num(1), harmonics |-> 5]

FourierIdle ==
    signalConfig = InitialSignalConfig /\ signalCase = NoCase /\ showHarmonics = FALSE /\ selectedHarmonic = 1 /\ harmonicsData = {}

Uniform == <<"u", "n", "i", "f", "o", "r", "m">>
Normal == <<"n", "o", "r", "m", "a", "l">>
Exponential == <<"e", "x", "p", "o", "n", "e", "n", "t", "i", "a", "l">>
Binomial == <<"b", "i", "n", "o", "m", "i", "a", "l">>

\* the store's cltParams, with its sizes (30, 1000, 10000) scaled down like
\* the ranges of the page's sliders
InitialCLTParams ==
    [populationType |-> Uniform, sampleSize |-> 2, numSamples |-> 2, populationSize |-> 2]

CltIdle ==
    cltParams = InitialCLTParams /\ cltPopulation = <<>> /\ cltSampleMeans = <<>> /\ isSimulating = FALSE

InitialCalculusParams ==
    [function |-> "x^2", point |-> Num(2),
     range |-> [min |-> Num(-5), max |-> Num(5), step |-> Rat(1, 10)]]

CalcIdle ==
    calculusParams = InitialCalculusParams

CoefIdle == cN = 0 /\ cK = 0 /\ cI = 0 /\ cResult = Undefined

InitialDistributionParams == [type |-> "normal", mean |-> Num(0), stdDev |-> Num(1)]

\* no setter was called yet
NoCall == [setter |-> "none"]

StoreIdle ==
    distributionParams = InitialDistributionParams /\ isAnimating = FALSE /\ selectedVisualization = "calculus" /\ lastCall = NoCall /\ storeCalls = 0

SettingsIdle == theme = "light" /\ animationsEnabled = TRUE /\ decimalPlaces = Num(3) /\ chartQuality = "medium" /\ maxDataPoints = Num(1000)

DebounceIdle == dbWait = 0 /\ dbNow = 0 /\ dbTimers = {} /\ dbTimeout = 0 /\ dbCalls = <<>> /\ dbInvoked = <<>>

ThrottleIdle == thLimit = 0 /\ thNow = 0 /\ inThrottle = FALSE /\ thTimers = {} /\ thLog = <<>>

HistIdle == hData = <<>> /\ hBins = 0 /\ hMin = Undefined /\ hMax = Undefined /\ hPoints = <<>>

HistInit ==
    /\ pc = "call"
    /\ ThrottleIdle
    /\ DebounceIdle
    /\ SettingsIdle
    /\ StoreIdle
    /\ CoefIdle
    /\ CalcIdle
    /\ CltIdle
    /\ FourierIdle
    /\ ExpIdle
    /\ DerivIdle
    /\ WaveIdle
    /\ DftIdle
    /\ SmIdle
    /\ PopIdle
    /\ DistIdle
    /\ BinIdle
    /\ ParseIdle
    /\ FpIdle
    /\ TanIdle
    /\ hData \in SeqsUpTo(Values, MaxData)
    /\ hBins \in 1..MaxBins
    /\ hMin \in {Undefined} \cup Values
    /\ hMax \in {Undefined} \cup Values
    /\ hPoints = <<>>

GenerateHistogram ==
    /\ pc = "call"
    /\ hPoints' = generateHistogram(hData, hBins, hMin, hMax)
    /\ pc' = "done"
    /\ UNCHANGED <<hData, hBins, hMin, hMax, fpVars, tanVars, parseVars, binVars, distVars, popVars, smVars, dftVars, waveVars, derivVars, expVars, fourierVars, cltVars, calcVars, coefVars, storeVars, settingsVars, debounceVars, throttleVars>>

HistNext == GenerateHistogram

SpecHistogram == HistInit /\ [][HistNext]_vars

(***************************************************************************)
(* Claims about generateHistogram.                                         *)
(***************************************************************************)
\* the input values v with actualMin <= v <= actualMax
ValuesInRange == {k \in 1..Len(hData) :
                    /\ Leq(actualMin(hData, hMin), hData[k])
                    /\ Leq(hData[k], actualMax(hData, hMax))}

RECURSIVE SumY(_)
SumY(points) == IF points = <<>> THEN 0 ELSE Head(points).y[1] + SumY(Tail(points))

\* C1: generateHistogram returns exactly `bins` points, and the sum of their
\* y values equals the number of data values v with min <= v <= max.
C1_BinsAndTotal ==
    pc = "done" =>
        /\ Len(hPoints) = hBins
        /\ SumY(hPoints) = Cardinality(ValuesInRange)

\* C2: every value with min <= v <= max is counted in bin
\* min(floor((v-min)/binWidth), bins-1); a value equal to max is counted in
\* the last bin; a value outside [min, max] is counted in no bin.
C2_BinPlacement ==
    pc = "done" =>
        LET aMin == actualMin(hData, hMin)
            aMax == actualMax(hData, hMax)
            bw == Div(Sub(aMax, aMin), Num(hBins))
            AtMax == {k \in ValuesInRange : hData[k] = aMax}
            placed(i) == {k \in ValuesInRange :
                            MathMin(Floor(Div(Sub(hData[k], aMin), bw)), Num(hBins - 1)) = Num(i)}
        IN  /\ \A i \in 0..(hBins - 1) : hPoints[i + 1].y = Num(Cardinality(placed(i)))
            /\ hPoints[hBins].y[1] >= Cardinality(AtMax)
            /\ SumY(hPoints) <= Cardinality(ValuesInRange)

\* the data values that lie in bin i of [lo, hi] cut into hBins equal bins:
\* lo + i w <= v < lo + (i + 1) w, the last bin holding v = hi as well
InBin(i, lo, hi) ==
    LET w == Div(Sub(hi, lo), Num(hBins))
    IN  {k \in 1..Len(hData) :
            \/ /\ Leq(Add(lo, Mul(Num(i), w)), hData[k])
               /\ Lt(hData[k], Add(lo, Mul(Num(i + 1), w)))
            \/ i = hBins - 1 /\ hData[k] = hi}

\* C21: when max > min and bins >= 1 the points are in strictly increasing
\* x order, point i (i = 0..bins-1) has x = min + i binWidth + binWidth/2
\* with binWidth = (max - min)/bins, and its y is the count of bin i.
C21_BinCentresAndCounts ==
    LET lo == IF hMin = Undefined THEN MathMinAll(hData) ELSE hMin
        hi == IF hMax = Undefined THEN MathMaxAll(hData) ELSE hMax
        w == Div(Sub(hi, lo), Num(hBins))
    IN  (pc = "done" /\ Lt(lo, hi) /\ hBins >= 1) =>
            /\ Len(hPoints) = hBins
            /\ \A i \in 1..(hBins - 1) : Lt(hPoints[i].x, hPoints[i + 1].x)
            /\ \A i \in 0..(hBins - 1) :
                  /\ hPoints[i + 1].x = Add(lo, Mul(Rat(2 * i + 1, 2), w))
                  /\ hPoints[i + 1].y = Num(Cardinality(InBin(i, lo, hi)))

\* three bins over [0, 2] with a value at the maximum, counted in the last
\* bin, and a value in the first
C21_Witness ==
    /\ pc = "done" /\ hBins = 3 /\ hMin = Undefined /\ hMax = Undefined
    /\ hData = <<Num(0), Num(2), Rat(1, 2)>>
    /\ hPoints[1] = [x |-> Rat(1, 3), y |-> Num(2)]
    /\ hPoints[3] = [x |-> Rat(5, 3), y |-> Num(1)]

(***************************************************************************)
(* generateFunctionPoints(f, range)                                        *)
(***************************************************************************)
\* the outcome of a call that throws instead of returning a number
Throw == <<0, 0, 0>>

\* The functions f passed in: finite everywhere ("x", "x^2"), Infinity at 0
\* ("1/x"), -Infinity at 0 ("-1/x^2"), NaN at 0 ("x/x"), and one that throws
\* for negative arguments ("throwNeg").
Functions == {"x", "x^2", "1/x", "-1/x^2", "x/x", "throwNeg"}

Call(f, x) ==
    CASE f = "x" -> x
      [] f = "x^2" -> Mul(x, x)
      [] f = "1/x" -> Div(Num(1), x)
      [] f = "-1/x^2" -> Div(Num(-1), Mul(x, x))
      [] f = "x/x" -> Div(x, x)
      [] f = "throwNeg" -> IF Lt(x, Num(0)) THEN Throw ELSE x

\* isFinite(y) && !isNaN(y)
Plottable(y) == isFinite(y) /\ ~isNaN(y)

\* the loop condition x <= range.max
inLoopStrict(x, r) == Lt(x, r.max)
inLoopOneMore(x, r) == Lt(Sub(x, r.step), r.max)
inLoop(x, r) == Leq(x, r.max)

\* the for loop from the value x of its variable on: the points it pushes,
\* whether an exception left the function, and the arguments f was called
\* with
RECURSIVE pointsFromNoCatch(_, _, _)
pointsFromNoCatch(f, x, r) ==
    IF ~inLoop(x, r) THEN [raised |-> FALSE, points |-> <<>>, calls |-> <<>>]
    ELSE LET y == Call(f, x)
             rest == pointsFromNoCatch(f, Add(x, r.step), r)
         IN  IF y = Throw THEN [raised |-> TRUE, points |-> <<>>, calls |-> <<x>>]
             ELSE IF Plottable(y)
                  THEN [rest EXCEPT !.points = <<[x |-> x, y |-> y]>> \o @,
                                    !.calls = <<x>> \o @]
                  ELSE [rest EXCEPT !.calls = <<x>> \o @]

RECURSIVE pointsFrom(_, _, _)
pointsFrom(f, x, r) ==
    IF ~inLoop(x, r) THEN [raised |-> FALSE, points |-> <<>>, calls |-> <<>>]
    ELSE LET y == Call(f, x)
             rest == pointsFrom(f, Add(x, r.step), r)
         IN  IF y = Throw                                \* catch: continue
             THEN [rest EXCEPT !.calls = <<x>> \o @]
             ELSE IF Plottable(y)
                  THEN [rest EXCEPT !.points = <<[x |-> x, y |-> y]>> \o @,
                                    !.calls = <<x>> \o @]
                  ELSE [rest EXCEPT !.calls = <<x>> \o @]

generateFunctionPoints(f, r) == pointsFrom(f, r.min, r)

RangeMins == {Num(i) : i \in (-MaxX)..MaxX}
RangeMaxs == {Num(i) : i \in (-MaxX)..MaxX}
RangeSteps == {Rat(1, 2), Num(1), Rat(3, 4)}
Ranges == [min : RangeMins, max : RangeMaxs, step : RangeSteps]

FpInit ==
    /\ pc = "call"
    /\ ThrottleIdle
    /\ DebounceIdle
    /\ SettingsIdle
    /\ StoreIdle
    /\ CoefIdle
    /\ CalcIdle
    /\ CltIdle
    /\ FourierIdle
    /\ ExpIdle
    /\ DerivIdle
    /\ WaveIdle
    /\ DftIdle
    /\ SmIdle
    /\ PopIdle
    /\ DistIdle
    /\ BinIdle
    /\ ParseIdle
    /\ HistIdle
    /\ TanIdle
    /\ range \in Ranges
    /\ fpF \in Functions
    /\ fpPoints = <<>>
    /\ fpRaised = FALSE
    /\ fpCalls = <<>>

GenerateFunctionPoints ==
    /\ pc = "call"
    /\ fpPoints' = generateFunctionPoints(fpF, range).points
    /\ fpRaised' = generateFunctionPoints(fpF, range).raised
    /\ fpCalls' = generateFunctionPoints(fpF, range).calls
    /\ pc' = "done"
    /\ UNCHANGED <<range, fpF, histVars, tanVars, parseVars, binVars, distVars, popVars, smVars, dftVars, waveVars, derivVars, expVars, fourierVars, cltVars, calcVars, coefVars, storeVars, settingsVars, debounceVars, throttleVars>>

FpNext == GenerateFunctionPoints

SpecFunctionPoints == FpInit /\ [][FpNext]_vars

(***************************************************************************)
(* Claims about generateFunctionPoints.                                    *)
(***************************************************************************)
\* the number of values the loop variable takes: ceil((max-min)/step) + 1
\* rounded down to the values that are <= max
VisitCount(r) ==
    IF Lt(r.max, r.min) THEN 0
    ELSE Floor(Div(Sub(r.max, r.min), r.step))[1] + 1

\* the values of the loop variable: min, min + step, ... while <= max
VisitedX(r) == {Add(r.min, Mul(Num(i), r.step)) : i \in 0..(VisitCount(r) - 1)}

IsFiniteNumber(y) == Len(y) = 2 /\ y[2] # 0
Finite(f, x) == IsFiniteNumber(Call(f, x))

EmittedX(points) == {points[i].x : i \in 1..Len(points)}

IdentityExample ==
    (fpF = "x" /\ range = [min |-> Num(-1), max |-> Num(1), step |-> Num(1)]) =>
        fpPoints = << [x |-> Num(-1), y |-> Num(-1)],
                      [x |-> Num(0), y |-> Num(0)],
                      [x |-> Num(1), y |-> Num(1)] >>

\* C3 (as stated): for step > 0 and min <= max the points are in strictly
\* increasing x order, start at x = range.min, consecutive x values differ by
\* range.step, and y = f(x) at each; the identity over {-1, 1, 1} yields
\* [(-1,-1), (0,0), (1,1)].
C3_StartsAtMinStepApart ==
    (pc = "done" /\ Lt(Num(0), range.step) /\ Leq(range.min, range.max)) =>
        /\ Len(fpPoints) >= 1
        /\ fpPoints[1].x = range.min
        /\ \A i \in 1..(Len(fpPoints) - 1) :
              fpPoints[i + 1].x = Add(fpPoints[i].x, range.step)
        /\ \A i \in 1..Len(fpPoints) : fpPoints[i].y = Call(fpF, fpPoints[i].x)
        /\ IdentityExample

\* C3 (amended): for step > 0 and min <= max the points are in strictly
\* increasing x order and are exactly the loop values min, min + step, ...
\* (while <= max) at which f(x) is finite, with y = f(x) at each; when f is
\* finite at all of them the first point is at range.min and consecutive x
\* values differ by range.step; the identity example yields the three points.
C3_FinitePointsInOrder ==
    (pc = "done" /\ Lt(Num(0), range.step) /\ Leq(range.min, range.max)) =>
        /\ \A i \in 1..(Len(fpPoints) - 1) : Lt(fpPoints[i].x, fpPoints[i + 1].x)
        /\ EmittedX(fpPoints) = {x \in VisitedX(range) : Finite(fpF, x)}
        /\ \A i \in 1..Len(fpPoints) : fpPoints[i].y = Call(fpF, fpPoints[i].x)
        /\ (\A x \in VisitedX(range) : Finite(fpF, x)) =>
              /\ Len(fpPoints) >= 1
              /\ fpPoints[1].x = range.min
              /\ \A i \in 1..(Len(fpPoints) - 1) :
                    fpPoints[i + 1].x = Add(fpPoints[i].x, range.step)
        /\ IdentityExample

\* a run where a point between two emitted points was skipped
C3_Witness ==
    /\ pc = "done" /\ Leq(range.min, range.max)
    /\ \E i \in 1..(Len(fpPoints) - 1) :
          fpPoints[i + 1].x # Add(fpPoints[i].x, range.step)

\* C4: generateFunctionPoints never emits a point whose y is NaN or infinite
\* and never raises: an x where f(x) is non-finite or f throws is skipped,
\* and the remaining x values are still visited.
C4_SkipsNonFinite ==
    pc = "done" =>
        /\ ~fpRaised
        /\ \A i \in 1..Len(fpPoints) : IsFiniteNumber(fpPoints[i].y)
        /\ \A x \in VisitedX(range) :
              IF Finite(fpF, x)
              THEN \E i \in 1..Len(fpPoints) :
                      fpPoints[i] = [x |-> x, y |-> Call(fpF, x)]
              ELSE x \notin EmittedX(fpPoints)
        /\ Len(fpPoints) <= VisitCount(range)

\* f threw at one x, and a later x was still emitted
C4_Witness ==
    /\ pc = "done"
    /\ \E x \in VisitedX(range) :
          /\ Call(fpF, x) = Throw
          /\ \E i \in 1..Len(fpPoints) : Lt(x, fpPoints[i].x)

DefaultH == Rat(1, 100000000)

\* (f(x + h) - f(x - h)) / (2 * h)
calculateDerivativeNoHalf(fPlus, fMinus, h) == Div(Sub(fPlus, fMinus), h)
calculateDerivative(fPlus, fMinus, h) == Div(Sub(fPlus, fMinus), Mul(Num(2), h))

\* y0 + slope * (x - x0)
tangentYNoOffset(slope, y0, x0, x) == Add(y0, Mul(slope, x))
tangentY(slope, y0, x0, x) == Add(y0, Mul(slope, Sub(x, x0)))

RECURSIVE tangentFrom(_, _, _, _, _)
tangentFrom(slope, y0, x0, x, r) ==
    IF ~inLoop(x, r) THEN <<>>
    ELSE LET y == tangentY(slope, y0, x0, x)
             rest == tangentFrom(slope, y0, x0, Add(x, r.step), r)
         IN  IF Plottable(y) THEN <<[x |-> x, y |-> y]>> \o rest ELSE rest

generateTangentLine(f, x0, r) ==
    IF f.plus = Throw \/ f.minus = Throw \/ f.at = Throw
    THEN [raised |-> TRUE, points |-> <<>>]
    ELSE [raised |-> FALSE,
          points |-> tangentFrom(calculateDerivative(f.plus, f.minus, DefaultH),
                                 f.at, x0, r.min, r)]

Outcomes == {Num(0), Num(1), NaN, Infinity, NegInfinity, Throw}
TangentPoints == {Num(0), Rat(1, 2)}

TanInit ==
    /\ pc = "call"
    /\ ThrottleIdle
    /\ DebounceIdle
    /\ SettingsIdle
    /\ StoreIdle
    /\ CoefIdle
    /\ CalcIdle
    /\ CltIdle
    /\ FourierIdle
    /\ ExpIdle
    /\ DerivIdle
    /\ WaveIdle
    /\ DftIdle
    /\ SmIdle
    /\ PopIdle
    /\ DistIdle
    /\ BinIdle
    /\ ParseIdle
    /\ HistIdle
    /\ range \in Ranges
    /\ fpF = "x" /\ fpPoints = <<>> /\ fpRaised = FALSE /\ fpCalls = <<>>
    /\ tF \in [minus : Outcomes, at : Outcomes, plus : Outcomes]
    /\ tX0 \in TangentPoints
    /\ tPoints = <<>>
    /\ tRaised = FALSE

GenerateTangentLine ==
    /\ pc = "call"
    /\ tPoints' = generateTangentLine(tF, tX0, range).points
    /\ tRaised' = generateTangentLine(tF, tX0, range).raised
    /\ pc' = "done"
    /\ UNCHANGED <<tF, tX0, fpVars, histVars, parseVars, binVars, distVars, popVars, smVars, dftVars, waveVars, derivVars, expVars, fourierVars, cltVars, calcVars, coefVars, storeVars, settingsVars, debounceVars, throttleVars>>

TanNext == GenerateTangentLine

SpecTangent == TanInit /\ [][TanNext]_vars

(***************************************************************************)
(* Claims about generateTangentLine.                                       *)
(***************************************************************************)
\* (f(x0 + h) - f(x0 - h)) / (2h) with h = 1e-8
SlopeAtX0 == Div(Sub(tF.plus, tF.minus), <<1, 50000000>>)
LineAt(x) == Add(tF.at, Mul(SlopeAtX0, Sub(x, tX0)))

\* C10: generateTangentLine visits the x values generateFunctionPoints visits
\* over the same range and emits (x, f(x0) + slope*(x - x0)) at each, with
\* slope = calculateDerivative(f, x0), omitting only the points whose y is
\* non-finite; when f(x0) or the slope is non-finite the result is empty.
C10_TangentLine ==
    (pc = "done" /\ ~tRaised) =>
        LET visited == EmittedX(generateFunctionPoints("x", range).points)
        IN  /\ EmittedX(tPoints) = {x \in visited : IsFiniteNumber(LineAt(x))}
            /\ \A i \in 1..Len(tPoints) : tPoints[i].y = LineAt(tPoints[i].x)
            /\ \A i \in 1..(Len(tPoints) - 1) : Lt(tPoints[i].x, tPoints[i + 1].x)
            /\ (~IsFiniteNumber(tF.at) \/ ~IsFiniteNumber(SlopeAtX0)) => tPoints = <<>>

\* a tangent with a finite non-zero slope through at least two points
C10_Witness ==
    /\ pc = "done" /\ ~tRaised
    /\ IsFiniteNumber(SlopeAtX0) /\ SlopeAtX0 # Num(0)
    /\ Len(tPoints) >= 2

(***************************************************************************)
(* parseFunction(expression)                                               *)
(***************************************************************************)
\* the characters \w matches
WordChars ==
    {"a", "b", "c", "d", "e", "f", "g", "h", "i", "j", "k", "l", "m",
     "n", "o", "p", "q", "r", "s", "t", "u", "v", "w", "x", "y", "z",
     "A", "B", "C", "D", "E", "F", "G", "H", "I", "J", "K", "L", "M",
     "N", "O", "P", "Q", "R", "S", "T", "U", "V", "W", "X", "Y", "Z",
     "0", "1", "2", "3", "4", "5", "6", "7", "8", "9", "_"}

MatchesAt(s, i, pat) ==
    /\ i + Len(pat) - 1 <= Len(s)
    /\ \A j \in 1..Len(pat) : s[i + j - 1] = pat[j]

\* \b before a pattern that starts with a word character
BoundaryBefore(s, i) == i = 1 \/ s[i - 1] \notin WordChars

\* s.replace(/\b<pat>/g, rep) from position i on
RECURSIVE replaceFrom(_, _, _, _)
replaceFrom(s, i, pat, rep) ==
    IF i > Len(s) THEN <<>>
    ELSE IF MatchesAt(s, i, pat) /\ BoundaryBefore(s, i)
         THEN rep \o replaceFrom(s, i + Len(pat), pat, rep)
         ELSE <<s[i]>> \o replaceFrom(s, i + 1, pat, rep)

replace(s, pat, rep) == replaceFrom(s, 1, pat, rep)

LnCall == <<"l", "n", "(">>
LogCall == <<"l", "o", "g", "(">>
Log10Call == <<"l", "o", "g", "1", "0", "(">>

\* expression.replace(/\bln\(/g, 'log(').replace(/\blog\(/g, 'log10(')
normalized(e) == replace(replace(e, LnCall, LogCall), LogCall, Log10Call)

\* compile is the library's.  It throws for a text whose parentheses do not
\* balance; whether it returns or throws for another text is its choice.
RECURSIVE DepthAfter(_, _)
DepthAfter(s, j) ==
    IF j = 0 THEN 0
    ELSE DepthAfter(s, j - 1)
         + (IF s[j] = "(" THEN 1 ELSE IF s[j] = ")" THEN -1 ELSE 0)

Balanced(s) ==
    /\ DepthAfter(s, Len(s)) = 0
    /\ \A j \in 1..Len(s) : DepthAfter(s, j) >= 0

\* The MathFunction returned; compiles: compile(normalized) returned.
parseFunctionKeepsNormalized(e, compiles) ==
    IF compiles
    THEN [raised |-> FALSE, expression |-> normalized(e), evaluate |-> "node",
          node |-> normalized(e)]
    ELSE [raised |-> FALSE, expression |-> <<"x">>, evaluate |-> "identity",
          node |-> <<>>]

parseFunction(e, compiles) ==
    IF compiles
    THEN [raised |-> FALSE, expression |-> e, evaluate |-> "node",
          node |-> normalized(e)]
    ELSE [raised |-> FALSE, expression |-> <<"x">>, evaluate |-> "identity",
          node |-> <<>>]

\* mf.evaluate(x): out is what node.evaluate({x, a: 1, ...}) returns, or Throw
evaluateNoCatch(mf, x, out) ==
    IF mf.evaluate = "identity" THEN [raised |-> FALSE, value |-> x]
    ELSE IF out = Throw THEN [raised |-> TRUE, value |-> NaN]
    ELSE [raised |-> FALSE, value |-> out]

evaluate(mf, x, out) ==
    IF mf.evaluate = "identity" THEN [raised |-> FALSE, value |-> x]
    ELSE IF out = Throw THEN [raised |-> FALSE, value |-> NaN]
    ELSE [raised |-> FALSE, value |-> out]

\* The expressions typed: up to MaxPieces of these pieces, concatenated.
Pieces == {LnCall, LogCall, Log10Call, <<"x">>, <<")">>, <<"a">>, <<"+">>}

RECURSIVE Concat(_)
Concat(ps) == IF ps = <<>> THEN <<>> ELSE Head(ps) \o Concat(Tail(ps))

Expressions == {Concat(ps) : ps \in SeqsUpTo(Pieces, MaxPieces)}

Arguments == {Num(0), Num(2)}
NodeOutcomes == {Num(0), Num(1), NaN, Infinity, Throw}

ParseInit ==
    /\ pc = "call"
    /\ ThrottleIdle
    /\ DebounceIdle
    /\ SettingsIdle
    /\ StoreIdle
    /\ CoefIdle
    /\ CalcIdle
    /\ CltIdle
    /\ FourierIdle
    /\ ExpIdle
    /\ DerivIdle
    /\ WaveIdle
    /\ DftIdle
    /\ SmIdle
    /\ PopIdle
    /\ DistIdle
    /\ BinIdle
    /\ HistIdle /\ FpIdle /\ TanIdle
    /\ expression \in Expressions
    /\ compiled = FALSE
    /\ parsed = NotParsed
    /\ evalX = NaN /\ evalOut = NaN /\ evalResult = NotEvaluated

ParseFunction ==
    /\ pc = "call"
    /\ \E compiles \in BOOLEAN :
          /\ compiles => Balanced(normalized(expression))
          /\ compiled' = compiles
          /\ parsed' = parseFunction(expression, compiles)
    /\ pc' = "parsed"
    /\ UNCHANGED <<expression, evalX, evalOut, evalResult, histVars, fpVars, tanVars, binVars, distVars, popVars, smVars, dftVars, waveVars, derivVars, expVars, fourierVars, cltVars, calcVars, coefVars, storeVars, settingsVars, debounceVars, throttleVars>>

Evaluate ==
    /\ pc \in {"parsed", "evaluated"}
    /\ ~parsed.raised
    /\ \E x \in Arguments, out \in NodeOutcomes :
          /\ evalX' = x
          /\ evalOut' = IF parsed.evaluate = "node" THEN out ELSE NaN
          /\ evalResult' = evaluate(parsed, x, out)
    /\ pc' = "evaluated"
    /\ UNCHANGED <<expression, compiled, parsed, histVars, fpVars, tanVars, binVars, distVars, popVars, smVars, dftVars, waveVars, derivVars, expVars, fourierVars, cltVars, calcVars, coefVars, storeVars, settingsVars, debounceVars, throttleVars>>

ParseNext == ParseFunction \/ Evaluate

SpecParse == ParseInit /\ [][ParseNext]_vars

(***************************************************************************)
(* Claims about parseFunction.                                             *)
(***************************************************************************)
\* C5: parseFunction never raises; when the expression fails to compile it
\* returns expression "x" with the identity as evaluate; when it compiles,
\* the returned expression is the input string unchanged.
C5_FallbackIdentity ==
    pc # "call" =>
        /\ ~parsed.raised
        /\ compiled => parsed.expression = expression
        /\ ~compiled =>
              /\ parsed.expression = <<"x">>
              /\ pc = "evaluated" => evalResult = [raised |-> FALSE, value |-> evalX]

\* a text other than "x" failed to compile and the fallback was evaluated
C5_Witness ==
    /\ pc = "evaluated" /\ ~compiled
    /\ expression # <<"x">> /\ evalX = Num(2)

\* C6: evaluate is total: when evaluating the compiled expression throws,
\* evaluate returns NaN instead of raising.
C6_EvaluateTotal ==
    pc = "evaluated" =>
        /\ ~evalResult.raised
        /\ (compiled /\ evalOut = Throw) => evalResult.value = NaN
        /\ (compiled /\ evalOut # Throw) => evalResult.value = evalOut

\* the compiled expression threw for this x
C6_Witness == pc = "evaluated" /\ compiled /\ evalOut = Throw

\* the name called at each "(" of s, in order: the word characters before it
RECURSIVE WordBefore(_, _)
WordBefore(s, j) ==
    IF j = 0 \/ s[j] \notin WordChars THEN <<>>
    ELSE Append(WordBefore(s, j - 1), s[j])

CallNames(s) ==
    LET opens == {j \in 1..Len(s) : s[j] = "("}
        nth(k) == CHOOSE j \in opens : Cardinality({i \in opens : i < j}) = k - 1
    IN  [k \in 1..Cardinality(opens) |-> WordBefore(s, nth(k) - 1)]

\* what the library evaluates a call of this name as
NaturalLog == <<"l", "o", "g">>
Base10Log == <<"l", "o", "g", "1", "0">>

\* C7: normalization makes every call ln(...) a call of the natural
\* logarithm and every bare log(...) a call of the base-10 logarithm.
C7_LnIsNaturalLog ==
    (pc # "call" /\ compiled) =>
        LET typed == CallNames(expression)
            called == CallNames(parsed.node)
        IN  /\ Len(called) = Len(typed)
            /\ \A k \in 1..Len(typed) :
                  /\ typed[k] = <<"l", "n">> => called[k] = NaturalLog
                  /\ typed[k] = <<"l", "o", "g">> => called[k] = Base10Log

(***************************************************************************)
(* binomialPMF(k, n, p)                                                    *)
(***************************************************************************)
\* Math.pow(base, e) for an integer e
RECURSIVE pow(_, _)
pow(base, e) ==
    IF e = 0 THEN Num(1)
    ELSE IF e > 0 THEN Mul(base, pow(base, e - 1))
    ELSE Div(Num(1), pow(base, -e))

\* result after the loop's iterations 1..i
RECURSIVE coefficientLoopOffByOne(_, _)
coefficientLoopOffByOne(n, i) ==
    IF i = 0 THEN Num(1)
    ELSE Div(Mul(coefficientLoopOffByOne(n, i - 1), Num(n - i)), Num(i))

RECURSIVE coefficientLoop(_, _)
coefficientLoop(n, i) ==
    IF i = 0 THEN Num(1)
    ELSE Div(Mul(coefficientLoop(n, i - 1), Num(n - i + 1)), Num(i))

binomialCoefficient(n, k) ==
    IF k < 0 \/ k > n THEN Num(0)
    ELSE IF k = 0 \/ k = n THEN Num(1)
    ELSE coefficientLoop(n, k)

binomialPMF(k, n, p) ==
    Mul(Mul(binomialCoefficient(n, k), pow(p, k)), pow(Sub(Num(1), p), n - k))

Probabilities == {Num(0), Rat(1, 4), Rat(1, 3), Rat(1, 2), Rat(3, 4), Num(1)}

BinInit ==
    /\ pc = "call"
    /\ ThrottleIdle
    /\ DebounceIdle
    /\ SettingsIdle
    /\ StoreIdle
    /\ CoefIdle
    /\ CalcIdle
    /\ CltIdle
    /\ FourierIdle
    /\ ExpIdle
    /\ DerivIdle
    /\ WaveIdle
    /\ DftIdle
    /\ SmIdle
    /\ PopIdle
    /\ DistIdle
    /\ HistIdle /\ FpIdle /\ TanIdle /\ ParseIdle
    /\ bN \in 0..MaxN
    /\ bP \in Probabilities
    /\ bK = 0
    /\ bPmf = NaN
    /\ bSeries = <<>>

\* one call, with any integer k from below 0 to above n
BinomialPMF ==
    /\ pc = "call"
    /\ \E k \in (-2)..(MaxN + 2) :
          /\ bK' = k
          /\ bPmf' = binomialPMF(k, bN, bP)
    /\ pc' = "done"
    /\ UNCHANGED <<bN, bP, bSeries, histVars, fpVars, tanVars, parseVars, distVars, popVars, smVars, dftVars, waveVars, derivVars, expVars, fourierVars, cltVars, calcVars, coefVars, storeVars, settingsVars, debounceVars, throttleVars>>

\* the calls for k = 0, 1, ..., n in turn
BinomialSeries ==
    /\ pc \in {"call", "series"}
    /\ Len(bSeries) <= bN
    /\ bSeries' = Append(bSeries, binomialPMF(Len(bSeries), bN, bP))
    /\ pc' = "series"
    /\ UNCHANGED <<bN, bP, bK, bPmf, histVars, fpVars, tanVars, parseVars, distVars, popVars, smVars, dftVars, waveVars, derivVars, expVars, fourierVars, cltVars, calcVars, coefVars, storeVars, settingsVars, debounceVars, throttleVars>>

BinNext == BinomialPMF \/ BinomialSeries

SpecBinomial == BinInit /\ [][BinNext]_vars

(***************************************************************************)
(* Claims about binomialPMF.                                               *)
(***************************************************************************)
\* C8: binomialPMF(k, n, p) returns 0 for every k < 0 and every k > n, for
\* all n >= 0 and all p in [0, 1], p = 0 and p = 1 included.
C8_ZeroOutsideSupport ==
    (pc = "done" /\ (bK < 0 \/ bK > bN)) => bPmf = Num(0)

RECURSIVE SumAll(_)
SumAll(values) == IF values = <<>> THEN Num(0) ELSE Add(Head(values), SumAll(Tail(values)))

\* C9: for n >= 1 and 0 < p < 1 the values binomialPMF(k, n, p), k = 0..n,
\* sum to 1 (n up to MaxN here).
C9_SumsToOne ==
    (Len(bSeries) = bN + 1 /\ bN >= 1 /\ Lt(Num(0), bP) /\ Lt(bP, Num(1))) =>
        SumAll(bSeries) = Num(1)

\* all the values of an asymmetric distribution with n >= 3 were computed
C9_Witness ==
    /\ Len(bSeries) = bN + 1 /\ bN >= 3
    /\ bP = Rat(1, 3)
    /\ \A k \in 1..Len(bSeries) : Lt(Num(0), bSeries[k])

(***************************************************************************)
(* exponentialPDF, poissonPMF, normalPDF                                   *)
(*                                                                         *)
(* Math.exp of a finite non-zero rational is no rational.  The number      *)
(* c * e^a (c, a finite and non-zero) is kept exactly as the 4-tuple       *)
(* <<c[1], c[2], a[1], a[2]>>; e is transcendental, so two such numbers    *)
(* are equal exactly when their tuples are.                                *)
(***************************************************************************)
IsExp(y) == Len(y) = 4
ExpOf(c, a) == <<c[1], c[2], a[1], a[2]>>

\* Math.exp(a)
exp(a) ==
    IF isNaN(a) THEN NaN
    ELSE IF a = Infinity THEN Infinity
    ELSE IF a = NegInfinity THEN Num(0)
    ELSE IF IsZero(a) THEN Num(1)
    ELSE ExpOf(Num(1), a)

\* c * e for a number c and a result e of Math.exp
MulExp(c, e) ==
    IF ~IsExp(e) THEN Mul(c, e)
    ELSE IF isNaN(c) THEN NaN
    ELSE IF IsZero(c) THEN Num(0)
    ELSE IF IsInf(c) THEN c
    ELSE ExpOf(Mul(c, <<e[1], e[2]>>), <<e[3], e[4]>>)

exponentialPDFNoGuard(x, lambda) == MulExp(lambda, exp(Mul(Neg(lambda), x)))

exponentialPDF(x, lambda) ==
    IF Lt(x, Num(0)) THEN Num(0)
    ELSE MulExp(lambda, exp(Mul(Neg(lambda), x)))

\* poissonPMF(k, lambda) and normalPDF(x, mean, stdDev) are kept as the
\* calls they are: lambda^k and k! at k = 20 are beyond the integers of the
\* model, and normalPDF needs sqrt(2 * PI).
poissonPMF(k, lambda) == <<"poissonPMF", k, lambda>>
normalPDF(x, mean, stdDev) == <<"normalPDF", x, mean, stdDev>>

(***************************************************************************)
(* generateDistributionData(type, params, range)                           *)
(***************************************************************************)
\* params.key: undefined when the map has no such key
Get(params, key) == IF key \in DOMAIN params THEN params[key] ELSE Undefined

\* a ?? b, which the code does not use: b only when a is undefined
orElseNullish(a, b) == IF a = Undefined THEN b ELSE a

\* a || b for a number or undefined a: b when a is undefined, 0 or NaN
orElse(a, b) == IF a = Undefined \/ isNaN(a) \/ IsZero(a) THEN b ELSE a

\* Math.min(20, Math.ceil(lambda * 3))
MaxKCap == 20
maxK(lambda) == MathMin(Num(MaxKCap), Ceil(Mul(lambda, Num(3))))

\* the conditions k <= n and k <= maxK of the loops over the support
inSupportStrict(k, top) == Lt(k, top)
inSupport(k, top) == Leq(k, top)

\* the loops from the value of their variable on: the points they push
RECURSIVE normalFrom(_, _, _, _)
normalFrom(x, mean, stdDev, r) ==
    IF ~inLoop(x, r) THEN <<>>
    ELSE <<[x |-> x, y |-> normalPDF(x, mean, stdDev)]>>
         \o normalFrom(Add(x, r.step), mean, stdDev, r)

\* k and n are integers in every call modelled
RECURSIVE binomialFrom(_, _, _)
binomialFrom(k, n, p) ==
    IF ~inSupport(k, n) THEN <<>>
    ELSE <<[x |-> k, y |-> binomialPMF(k[1], n[1], p)]>>
         \o binomialFrom(Add(k, Num(1)), n, p)

RECURSIVE poissonFrom(_, _, _)
poissonFrom(k, top, lambda) ==
    IF ~inSupport(k, top) THEN <<>>
    ELSE <<[x |-> k, y |-> poissonPMF(k, lambda)]>>
         \o poissonFrom(Add(k, Num(1)), top, lambda)

RECURSIVE exponentialFrom(_, _, _)
exponentialFrom(x, expLambda, r) ==
    IF ~inLoop(x, r) THEN <<>>
    ELSE <<[x |-> x, y |-> exponentialPDF(x, expLambda)]>>
         \o exponentialFrom(Add(x, r.step), expLambda, r)

\* the constants of the branch taken
distConstants(type, params) ==
    CASE type = "normal" ->
           [mean |-> orElse(Get(params, "mean"), Num(0)),
            stdDev |-> orElse(Get(params, "stdDev"), Num(1))]
      [] type = "binomial" ->
           [n |-> orElse(Get(params, "n"), Num(10)),
            p |-> orElse(Get(params, "p"), Rat(1, 2))]
      [] type = "poisson" ->
           [lambda |-> orElse(Get(params, "lambda"), Num(1))]
      [] type = "exponential" ->
           [expLambda |-> orElse(Get(params, "lambda"), Num(1))]

generateDistributionData(type, params, r) ==
    LET c == distConstants(type, params)
    IN  CASE type = "normal" -> normalFrom(r.min, c.mean, c.stdDev, r)
          [] type = "binomial" -> binomialFrom(Num(0), c.n, c.p)
          [] type = "poisson" -> poissonFrom(Num(0), maxK(c.lambda), c.lambda)
          [] type = "exponential" -> exponentialFrom(r.min, c.expLambda, r)

\* the maps that give a value of values[key] to some of the keys
ParamMaps(values) ==
    UNION {{params \in [keys -> UNION {values[key] : key \in keys}] :
               \A key \in keys : params[key] \in values[key]} :
           keys \in SUBSET DOMAIN values}

MaxParam == 2
DistTypes == {"normal", "binomial", "poisson", "exponential"}
Counts == {Num(i) : i \in 0..MaxParam}
Rates == {Num(0), Rat(1, 2), Num(2), Num(7)}
DistParams(type) ==
    CASE type = "normal" -> ParamMaps([mean |-> {Num(-1), Num(0), Num(1)},
                                       stdDev |-> {Num(0), Rat(1, 2), Num(1)}])
      [] type = "binomial" -> ParamMaps([n |-> Counts,
                                         p |-> {Num(0), Rat(1, 4), Num(1)}])
      [] type = "poisson" -> ParamMaps([lambda |-> Rates])
      [] type = "exponential" -> ParamMaps([lambda |-> Rates])

DistInit ==
    /\ pc = "call"
    /\ ThrottleIdle
    /\ DebounceIdle
    /\ SettingsIdle
    /\ StoreIdle
    /\ CoefIdle
    /\ CalcIdle
    /\ CltIdle
    /\ FourierIdle
    /\ ExpIdle
    /\ DerivIdle
    /\ WaveIdle
    /\ DftIdle
    /\ SmIdle
    /\ PopIdle
    /\ HistIdle /\ FpIdle /\ TanIdle /\ ParseIdle /\ BinIdle
    /\ dType \in DistTypes
    /\ dParams \in DistParams(dType)
    /\ dRange \in Ranges
    /\ dUsed = NoParams
    /\ dPoints = <<>>

GenerateDistributionData ==
    /\ pc = "call"
    /\ dUsed' = distConstants(dType, dParams)
    /\ dPoints' = generateDistributionData(dType, dParams, dRange)
    /\ pc' = "done"
    /\ UNCHANGED <<dType, dParams, dRange, histVars, fpVars, tanVars, parseVars, binVars, popVars, smVars, dftVars, waveVars, derivVars, expVars, fourierVars, cltVars, calcVars, coefVars, storeVars, settingsVars, debounceVars, throttleVars>>

DistNext == GenerateDistributionData

SpecDistribution == DistInit /\ [][DistNext]_vars

(***************************************************************************)
(* Claims about generateDistributionData.                                  *)
(***************************************************************************)
\* the largest k of the support: n for binomial, min(20, ceil(3 lambda))
\* for poisson, n and lambda being the constants the branch uses
TopOfSupport ==
    IF dType = "binomial" THEN dUsed.n[1]
    ELSE LET ceil3 == CHOOSE c \in 0..(3 * 7) :
                          /\ Leq(Mul(Num(3), dUsed.lambda), Num(c))
                          /\ Lt(Num(c - 1), Mul(Num(3), dUsed.lambda))
         IN  IF ceil3 < 20 THEN ceil3 ELSE 20

\* C11: for a discrete type the range is ignored and there is one point per
\* integer of the support, in increasing order: x = 0..n for binomial
\* (n + 1 points) and x = 0..maxK, maxK = min(20, ceil(3 lambda)), for
\* poisson (maxK + 1 points).
C11_DiscreteSupport ==
    (pc = "done" /\ dType \in {"binomial", "poisson"}) =>
        /\ Len(dPoints) = TopOfSupport + 1
        /\ \A i \in 1..Len(dPoints) : dPoints[i].x = Num(i - 1)
        /\ dPoints = generateDistributionData(dType, dParams, NoRange)

\* a poisson call that reaches the cap of 20 and a binomial call with a
\* range that holds none of the support
C11_Witness ==
    /\ pc = "done"
    /\ \/ dType = "poisson" /\ Len(dPoints) = 21
       \/ /\ dType = "binomial" /\ Len(dPoints) = 3
          /\ dRange = [min |-> Num(1), max |-> Num(-1), step |-> Num(1)]

(***************************************************************************)
(* generatePopulation(type, size, params)                                  *)
(*                                                                         *)
(* Math.random() returns any number of [0, 1): each call is a choice from  *)
(* Randoms.  What the function can return is therefore a set of arrays.    *)
(***************************************************************************)
Randoms == {Num(0), Rat(1, 4), Rat(1, 2), Rat(3, 4)}

\* values of z0 = Math.sqrt(-2 * Math.log(u1)) * Math.cos(2 * Math.PI * u2):
\* any real number, and Infinity or -Infinity when u1 is 0
BoxMuller == {NegInfinity, Num(-1), Rat(1, 2), Num(2), Infinity}

\* values of -Math.log(1 - Math.random()): 0 when the number drawn is 0,
\* and any positive number
NegLogs == {Num(0), Rat(1, 2), Num(3)}

\* the constants of the branch taken
popConstants(type, params) ==
    CASE type = "uniform" ->
           [min |-> orElse(Get(params, "min"), Num(0)),
            max |-> orElse(Get(params, "max"), Num(100))]
      [] type = "normal" ->
           [mean |-> orElse(Get(params, "mean"), Num(50)),
            stdDev |-> orElse(Get(params, "stdDev"), Num(15))]
      [] type = "exponential" ->
           [lambda |-> orElse(Get(params, "lambda"), Rat(1, 10))]
      [] type = "binomial" ->
           [n |-> orElse(Get(params, "n"), Num(10)),
            p |-> orElse(Get(params, "p"), Rat(1, 2))]

\* the inner loop of the binomial branch from the value j of its variable
\* on: the numbers of successes it can add
RECURSIVE successesFrom(_, _, _)
successesFrom(j, n, p) ==
    IF ~Lt(Num(j), n) THEN {0}
    ELSE {(IF Lt(u, p) THEN 1 ELSE 0) + more :
             u \in Randoms, more \in successesFrom(j + 1, n, p)}

\* the values one iteration of the outer loop can push
pushed(type, c) ==
    CASE type = "uniform" ->
           {Add(Mul(u, Sub(c.max, c.min)), c.min) : u \in Randoms}
      [] type = "normal" ->
           {Add(c.mean, Mul(c.stdDev, z0)) : z0 \in BoxMuller}
      [] type = "exponential" ->
           {Div(l, c.lambda) : l \in NegLogs}
      [] type = "binomial" ->
           {Num(successes) : successes \in successesFrom(0, c.n, c.p)}

\* the condition i < size of the outer loops
inPopulationInclusive(i, size) == i <= size
inPopulation(i, size) == i < size

\* an outer loop from the value i of its variable on: the arrays it can push
RECURSIVE populationsFrom(_, _, _)
populationsFrom(i, size, values) ==
    IF ~inPopulation(i, size) THEN {<<>>}
    ELSE {<<value>> \o rest :
             value \in values, rest \in populationsFrom(i + 1, size, values)}

\* the switch has no default: for any other type nothing is pushed
generatePopulation(type, size, params) ==
    IF type \notin {"uniform", "normal", "exponential", "binomial"} THEN {<<>>}
    ELSE populationsFrom(0, size, pushed(type, popConstants(type, params)))

MaxSize == 2
PopTypes == {"uniform", "normal", "exponential", "binomial"}
PopParams(type) ==
    CASE type = "uniform" -> ParamMaps([min |-> {Num(0), Num(1)},
                                        max |-> {Num(0), Num(2)}])
      [] type = "normal" -> ParamMaps([mean |-> {Num(0), Num(1)},
                                       stdDev |-> {Num(0), Num(1)}])
      [] type = "exponential" -> ParamMaps([lambda |-> {Num(0), Rat(1, 2), Num(2)}])
      [] type = "binomial" -> ParamMaps([n |-> Counts,
                                         p |-> {Num(0), Rat(1, 4), Num(1)}])

PopInit ==
    /\ pc = "call"
    /\ ThrottleIdle
    /\ DebounceIdle
    /\ SettingsIdle
    /\ StoreIdle
    /\ CoefIdle
    /\ CalcIdle
    /\ CltIdle
    /\ FourierIdle
    /\ ExpIdle
    /\ DerivIdle
    /\ WaveIdle
    /\ DftIdle
    /\ SmIdle
    /\ HistIdle /\ FpIdle /\ TanIdle /\ ParseIdle /\ BinIdle /\ DistIdle
    /\ popType \in PopTypes
    /\ popSize \in 0..MaxSize
    /\ popParams \in PopParams(popType)
    /\ popUsed = NoParams
    /\ population = <<>>

GeneratePopulation ==
    /\ pc = "call"
    /\ popUsed' = popConstants(popType, popParams)
    /\ population' \in generatePopulation(popType, popSize, popParams)
    /\ pc' = "done"
    /\ UNCHANGED <<popType, popSize, popParams, histVars, fpVars, tanVars, parseVars, binVars, distVars, smVars, dftVars, waveVars, derivVars, expVars, fourierVars, cltVars, calcVars, coefVars, storeVars, settingsVars, debounceVars, throttleVars>>

PopNext == GeneratePopulation

SpecPopulation == PopInit /\ [][PopNext]_vars

(***************************************************************************)
(* Claims about generatePopulation.                                        *)
(***************************************************************************)
\* C12: for each of the four population types and every size >= 0 the
\* array generatePopulation returns has exactly size elements.
C12_PopulationSize ==
    (pc = "done" /\ popType \in {"uniform", "normal", "exponential", "binomial"}) =>
        Len(population) = popSize

\* a binomial population of the largest size, whose elements took draws of
\* their own
C12_Witness ==
    /\ pc = "done" /\ popType = "binomial" /\ popSize = 2
    /\ Len(population) = 2 /\ population[1] # population[2]

\* the defaults written in the two functions
PopDefaults ==
    [uniform |-> [min |-> Num(0), max |-> Num(100)],
     normal |-> [mean |-> Num(50), stdDev |-> Num(15)],
     exponential |-> [lambda |-> Rat(1, 10)],
     binomial |-> [n |-> Num(10), p |-> Rat(1, 2)]]
DistDefaults ==
    [normal |-> [mean |-> Num(0), stdDev |-> Num(1)],
     binomial |-> [n |-> Num(10), p |-> Rat(1, 2)],
     poisson |-> [lambda |-> Num(1)],
     exponential |-> [expLambda |-> Num(1)]]

\* the key of params a constant is read from
KeyOf(constant) == IF constant = "expLambda" THEN "lambda" ELSE constant

\* the value the claim gives a constant: the default only when the key is
\* omitted
AsGiven(params, constant, default) ==
    IF KeyOf(constant) \in DOMAIN params THEN params[KeyOf(constant)] ELSE default

\* C13: in generatePopulation and generateDistributionData a default
\* replaces a parameter exactly when params omits its key; a value that is
\* supplied, 0 included, is used as it is given.
C13_DefaultOnlyWhenOmitted ==
    pc = "done" =>
        /\ \A constant \in DOMAIN popUsed :
              popUsed[constant] =
                  AsGiven(popParams, constant, PopDefaults[popType][constant])
        /\ \A constant \in DOMAIN dUsed :
              dUsed[constant] =
                  AsGiven(dParams, constant, DistDefaults[dType][constant])

(***************************************************************************)
(* generateSampleMeans(population, sampleSize, numSamples)                 *)
(***************************************************************************)
\* population[index] for the index drawn from the number u that
\* Math.random() returned: undefined when the array has no such element
elementAt(p, index) ==
    IF isFinite(index) /\ (index[1] + 1) \in DOMAIN p THEN p[index[1] + 1]
    ELSE Undefined
drawnCeil(p, u) == elementAt(p, Ceil(Mul(u, Num(Len(p)))))
drawn(p, u) == elementAt(p, Floor(Mul(u, Num(Len(p)))))

\* the inner loop from the value j of its variable on: the samples it can
\* push
RECURSIVE samplesFrom(_, _, _)
samplesFrom(j, size, p) ==
    IF ~(j < size) THEN {<<>>}
    ELSE {<<drawn(p, u)>> \o rest :
             u \in Randoms, rest \in samplesFrom(j + 1, size, p)}

\* sum + val of the reducer: NaN when val is undefined
plus(sum, val) == IF val = Undefined THEN NaN ELSE Add(sum, val)

\* sample.reduce((sum, val) => sum + val, sum)
RECURSIVE reduce(_, _)
reduce(sample, sum) ==
    IF sample = <<>> THEN sum
    ELSE reduce(Tail(sample), plus(sum, Head(sample)))

\* the values of mean one iteration of the outer loop can push
means(p, size) ==
    {Div(reduce(sample, Num(0)), Num(size)) : sample \in samplesFrom(0, size, p)}

\* the outer loop from the value i of its variable on: the arrays it can push
RECURSIVE sampleMeansFrom(_, _, _)
sampleMeansFrom(i, count, values) ==
    IF ~(i < count) THEN {<<>>}
    ELSE {<<mean>> \o rest :
             mean \in values, rest \in sampleMeansFrom(i + 1, count, values)}

generateSampleMeans(p, size, count) == sampleMeansFrom(0, count, means(p, size))

MaxPopulation == 3
MaxSamples == 2
SampleValues == {Num(-1), Num(0), Rat(1, 2)}
SampleSizes == {0, 1, 2}

SmInit ==
    /\ pc = "call"
    /\ ThrottleIdle
    /\ DebounceIdle
    /\ SettingsIdle
    /\ StoreIdle
    /\ CoefIdle
    /\ CalcIdle
    /\ CltIdle
    /\ FourierIdle
    /\ ExpIdle
    /\ DerivIdle
    /\ WaveIdle
    /\ DftIdle
    /\ HistIdle /\ FpIdle /\ TanIdle /\ ParseIdle /\ BinIdle /\ DistIdle /\ PopIdle
    /\ smPopulation \in SeqsUpTo(SampleValues, MaxPopulation)
    /\ sampleSize \in SampleSizes
    /\ numSamples \in 0..MaxSamples
    /\ sampleMeans = <<>>

GenerateSampleMeans ==
    /\ pc = "call"
    /\ sampleMeans' \in generateSampleMeans(smPopulation, sampleSize, numSamples)
    /\ pc' = "done"
    /\ UNCHANGED <<smPopulation, sampleSize, numSamples, histVars, fpVars, tanVars, parseVars, binVars, distVars, popVars, dftVars, waveVars, derivVars, expVars, fourierVars, cltVars, calcVars, coefVars, storeVars, settingsVars, debounceVars, throttleVars>>

SmNext == GenerateSampleMeans

SpecSampleMeans == SmInit /\ [][SmNext]_vars

(***************************************************************************)
(* Claims about generateSampleMeans.                                       *)
(***************************************************************************)
\* the sum of the elements of p at the positions picks[1], ..., picks[j]
RECURSIVE PickedSum(_, _, _)
PickedSum(p, picks, j) ==
    IF j = 0 THEN Num(0) ELSE Add(PickedSum(p, picks, j - 1), p[picks[j]])

\* the means of sampleSize elements of p chosen with replacement
MeansWithReplacement(p, size) ==
    {Div(PickedSum(p, picks, size), Num(size)) : picks \in [1..size -> DOMAIN p]}

Root3(a, b) == <<a, b>>
Zero == Root3(Num(0), Num(0))

\* x + y, x - y and c * x for numbers x, y with a sqrt(3) part and a rational c
AddRoot3(x, y) == Root3(Add(x[1], y[1]), Add(x[2], y[2]))
SubRoot3(x, y) == Root3(Sub(x[1], y[1]), Sub(x[2], y[2]))
Scale(c, x) == Root3(Mul(c, x[1]), Mul(c, x[2]))

\* the cosines of 0, 30, ..., 330 degrees
CosTable ==
    <<Root3(Num(1), Num(0)), Root3(Num(0), Rat(1, 2)), Root3(Rat(1, 2), Num(0)),
      Root3(Num(0), Num(0)), Root3(Rat(-1, 2), Num(0)), Root3(Num(0), Rat(-1, 2)),
      Root3(Num(-1), Num(0)), Root3(Num(0), Rat(-1, 2)), Root3(Rat(-1, 2), Num(0)),
      Root3(Num(0), Num(0)), Root3(Rat(1, 2), Num(0)), Root3(Num(0), Rat(1, 2))>>

\* Math.cos(angle) and Math.sin(angle), angle = 2 PI * turns and turns a
\* rational whose denominator divides 12
cos(turns) == CosTable[((turns[1] * (12 \div turns[2])) % 12) + 1]
sinNoShift(turns) == cos(turns)
sin(turns) == cos(Sub(turns, Rat(1, 4)))

\* the inner loop from the value n of its variable on
RECURSIVE innerLoop(_, _, _, _)
innerLoop(s, k, n, sums) ==
    IF ~(n < Len(s)) THEN sums
    ELSE LET turns == Rat(k * n, Len(s))
         IN  innerLoop(s, k, n + 1,
                       [real |-> AddRoot3(sums.real, Scale(s[n + 1], cos(turns))),
                        imag |-> SubRoot3(sums.imag, Scale(s[n + 1], sin(turns)))])

\* { real, imag } of the iteration k of the outer loop
binSkipFirst(s, k) == innerLoop(s, k, 1, [real |-> Zero, imag |-> Zero])
bin(s, k) == innerLoop(s, k, 0, [real |-> Zero, imag |-> Zero])

\* the outer loop from the value k of its variable on: what it pushes
RECURSIVE dftFrom(_, _)
dftFrom(s, k) ==
    IF ~(k < Len(s)) THEN <<>>
    ELSE <<bin(s, k)>> \o dftFrom(s, k + 1)

dft(s) == dftFrom(s, 0)

MaxAmplitude == 1
SignalValues == {Num(i) : i \in (-MaxAmplitude)..MaxAmplitude}
\* every signal of up to 4 samples, and the constant signals of 6 and 12
SignalLengths == {0, 1, 2, 3, 4}
ConstantLengths == {6, 12}
Signals ==
    UNION {[1..N -> SignalValues] : N \in SignalLengths}
    \cup {[n \in 1..N |-> c] : N \in ConstantLengths, c \in SignalValues}

DftInit ==
    /\ pc = "call"
    /\ ThrottleIdle
    /\ DebounceIdle
    /\ SettingsIdle
    /\ StoreIdle
    /\ CoefIdle
    /\ CalcIdle
    /\ CltIdle
    /\ FourierIdle
    /\ ExpIdle
    /\ DerivIdle
    /\ WaveIdle
    /\ HistIdle /\ FpIdle /\ TanIdle /\ ParseIdle /\ BinIdle /\ DistIdle /\ PopIdle /\ SmIdle
    /\ signal \in Signals
    /\ dftResult = <<>>

Dft ==
    /\ pc = "call"
    /\ dftResult' = dft(signal)
    /\ pc' = "done"
    /\ UNCHANGED <<signal, histVars, fpVars, tanVars, parseVars, binVars, distVars, popVars, smVars, waveVars, derivVars, expVars, fourierVars, cltVars, calcVars, coefVars, storeVars, settingsVars, debounceVars, throttleVars>>

DftNext == Dft

SpecDft == DftInit /\ [][DftNext]_vars

(***************************************************************************)
(* Claims about dft.                                                       *)
(***************************************************************************)
\* the sum of the samples signal[n] times weight(n) over n = 0..upTo
RECURSIVE Weighted(_, _, _)
Weighted(k, upTo, sine) ==
    IF upTo < 0 THEN Zero
    ELSE LET turns == Rat(k * upTo, Len(signal))
         IN  AddRoot3(Weighted(k, upTo - 1, sine),
                      Scale(signal[upTo + 1], IF sine THEN sin(turns) ELSE cos(turns)))

RECURSIVE SumOfSamples(_)
SumOfSamples(upTo) ==
    IF upTo = 0 THEN Num(0) ELSE Add(SumOfSamples(upTo - 1), signal[upTo])

\* C15: dft(signal) has exactly N entries (none for an empty signal);
\* entry k is the sum over all N samples of signal[n] cos(2 PI k n / N) and
\* minus the sum of signal[n] sin(2 PI k n / N); entry 0 has the sum of the
\* samples as its real part and 0 as its imaginary part.
C15_DftEntries ==
    pc = "done" =>
        /\ Len(dftResult) = Len(signal)
        /\ \A k \in 0..(Len(signal) - 1) :
              /\ dftResult[k + 1].real = Weighted(k, Len(signal) - 1, FALSE)
              /\ dftResult[k + 1].imag = SubRoot3(Zero, Weighted(k, Len(signal) - 1, TRUE))
        /\ Len(signal) > 0 =>
              /\ dftResult[1].real = Root3(SumOfSamples(Len(signal)), Num(0))
              /\ dftResult[1].imag = Zero

\* a signal of three samples whose second bin has a sqrt(3) part, and the
\* empty signal
C15_Witness ==
    /\ pc = "done"
    /\ \/ signal = <<Num(1), Num(0), Num(-1)>> /\ dftResult[2].imag[2] # Num(0)
       \/ signal = <<>> /\ dftResult = <<>>

\* x * y for numbers with a sqrt(3) part
MulRoot3(x, y) ==
    Root3(Add(Mul(x[1], y[1]), Mul(Num(3), Mul(x[2], y[2]))),
          Add(Mul(x[1], y[2]), Mul(x[2], y[1])))

\* the square of the magnitude sqrt(real^2 + imag^2)
MagnitudeSquared(z) == AddRoot3(MulRoot3(z.real, z.real), MulRoot3(z.imag, z.imag))

IsConstant(s) == \A i \in DOMAIN s : s[i] = s[1]

\* C16: for a constant signal of N >= 1 samples of value c the magnitude is
\* N |c| in bin 0 and 0 in the bins 1..N-1.
C16_ConstantSignal ==
    (pc = "done" /\ Len(signal) >= 1 /\ IsConstant(signal)) =>
        LET Nc == Mul(Num(Len(signal)), signal[1])
        IN  /\ MagnitudeSquared(dftResult[1]) = Root3(Mul(Nc, Nc), Num(0))
            /\ \A k \in 2..Len(signal) :
                  MagnitudeSquared(dftResult[k]) = Zero

\* the constant signal of twelve samples of value -1
C16_Witness ==
    /\ pc = "done"
    /\ signal = [n \in 1..12 |-> Num(-1)]
    /\ Len(dftResult) = 12

(***************************************************************************)
(* generateSquareWave, generateTriangleWave, generateSawtoothWave          *)
(***************************************************************************)
\* t = i / samples
timeOfNext(i, count) == Div(Num(i + 1), Num(count))
timeOf(i, count) == Div(Num(i), Num(count))

\* the sign of Math.sin(2 * Math.PI * turns) for turns >= 0.  The sine of 0
\* is 0.  At every other multiple of half a turn the exact sine is 0 but
\* the argument is a rounded multiple of PI, and what is computed is a
\* number of the order of 1e-16 of either sign, or 0.
sineSigns(turns) ==
    LET part == Sub(turns, Floor(turns))
    IN  IF IsZero(turns) THEN {0}
        ELSE IF IsZero(part) \/ part = Rat(1, 2) THEN {-1, 0, 1}
        ELSE IF Lt(part, Rat(1, 2)) THEN {1}
        ELSE {-1}

\* value > 0 ? amplitude : -amplitude
squareValue(sine, a) == IF sine > 0 THEN a ELSE Neg(a)

\* the loop of generateSquareWave from the value i of its variable on: the
\* sines it can compute and the values it pushes for them
RECURSIVE squareFrom(_, _, _, _)
squareFrom(i, f, a, count) ==
    IF ~(i < count) THEN {<<>>}
    ELSE {<<[sine |-> sine, value |-> squareValue(sine, a)]>> \o rest :
             sine \in sineSigns(Mul(f, timeOf(i, count))),
             rest \in squareFrom(i + 1, f, a, count)}

generateSquareWave(f, a, count) == squareFrom(0, f, a, count)

\* Math.trunc, and a % b for a finite a >= 0
Trunc(a) == IF isFinite(a) /\ a[1] < 0 THEN Neg(Floor(Neg(a))) ELSE Floor(a)
Mod(a, b) ==
    IF isNaN(b) \/ IsZero(b) THEN NaN
    ELSE IF IsInf(b) THEN a
    ELSE Sub(a, Mul(b, Trunc(Div(a, b))))

\* phase = (t % period) / period with period = 1 / frequency
phaseOf(t, f) == LET period == Div(Num(1), f) IN Div(Mod(t, period), period)

triangleValue(phase, a) ==
    IF Lt(phase, Rat(1, 2)) THEN Sub(Mul(Mul(Num(4), a), phase), a)
    ELSE Sub(Mul(Mul(Num(4), a), Sub(Num(1), phase)), a)

sawtoothValue(phase, a) == Sub(Mul(Mul(Num(2), a), phase), a)

RECURSIVE triangleFrom(_, _, _, _)
triangleFrom(i, f, a, count) ==
    IF ~(i < count) THEN <<>>
    ELSE <<triangleValue(phaseOf(timeOf(i, count), f), a)>>
         \o triangleFrom(i + 1, f, a, count)

generateTriangleWave(f, a, count) == triangleFrom(0, f, a, count)

RECURSIVE sawtoothFrom(_, _, _, _)
sawtoothFrom(i, f, a, count) ==
    IF ~(i < count) THEN <<>>
    ELSE <<sawtoothValue(phaseOf(timeOf(i, count), f), a)>>
         \o sawtoothFrom(i + 1, f, a, count)

generateSawtoothWave(f, a, count) == sawtoothFrom(0, f, a, count)

MaxWave == 4
WaveTypes == {"square", "triangle", "sawtooth"}
Frequencies == {Num(0), Rat(1, 2), Num(1), Num(2), Num(3)}
Amplitudes == {Num(0), Rat(1, 2), Num(2)}

WaveInit ==
    /\ pc = "call"
    /\ ThrottleIdle
    /\ DebounceIdle
    /\ SettingsIdle
    /\ StoreIdle
    /\ CoefIdle
    /\ CalcIdle
    /\ CltIdle
    /\ FourierIdle
    /\ ExpIdle
    /\ DerivIdle
    /\ HistIdle /\ FpIdle /\ TanIdle /\ ParseIdle /\ BinIdle /\ DistIdle /\ PopIdle /\ SmIdle
    /\ DftIdle
    /\ wType \in WaveTypes
    /\ frequency \in Frequencies
    /\ amplitude \in Amplitudes
    /\ samples \in 0..MaxWave
    /\ wSines = <<>>
    /\ wSignal = <<>>

GenerateSquareWave ==
    /\ pc = "call" /\ wType = "square"
    /\ \E wave \in generateSquareWave(frequency, amplitude, samples) :
          /\ wSines' = [i \in DOMAIN wave |-> wave[i].sine]
          /\ wSignal' = [i \in DOMAIN wave |-> wave[i].value]
    /\ pc' = "done"
    /\ UNCHANGED <<wType, frequency, amplitude, samples, histVars, fpVars, tanVars, parseVars, binVars, distVars, popVars, smVars, dftVars, derivVars, expVars, fourierVars, cltVars, calcVars, coefVars, storeVars, settingsVars, debounceVars, throttleVars>>

GenerateTriangleWave ==
    /\ pc = "call" /\ wType = "triangle"
    /\ wSignal' = generateTriangleWave(frequency, amplitude, samples)
    /\ pc' = "done"
    /\ UNCHANGED <<wType, frequency, amplitude, samples, wSines, histVars, fpVars, tanVars, parseVars, binVars, distVars, popVars, smVars, dftVars, derivVars, expVars, fourierVars, cltVars, calcVars, coefVars, storeVars, settingsVars, debounceVars, throttleVars>>

GenerateSawtoothWave ==
    /\ pc = "call" /\ wType = "sawtooth"
    /\ wSignal' = generateSawtoothWave(frequency, amplitude, samples)
    /\ pc' = "done"
    /\ UNCHANGED <<wType, frequency, amplitude, samples, wSines, histVars, fpVars, tanVars, parseVars, binVars, distVars, popVars, smVars, dftVars, derivVars, expVars, fourierVars, cltVars, calcVars, coefVars, storeVars, settingsVars, debounceVars, throttleVars>>

WaveNext == GenerateSquareWave \/ GenerateTriangleWave \/ GenerateSawtoothWave

SpecWave == WaveInit /\ [][WaveNext]_vars

(***************************************************************************)
(* Claims about the waveform generators.                                   *)
(***************************************************************************)
\* the fractional part of frequency * t: the position within the period
PhaseAt(t) == LET turns == Mul(frequency, t) IN Sub(turns, Num(turns[1] \div turns[2]))

\* the waveforms as functions of the position within the period
TriangleAt(phase) ==
    IF Lt(phase, Rat(1, 2)) THEN Mul(amplitude, Sub(Mul(Num(4), phase), Num(1)))
    ELSE Mul(amplitude, Sub(Num(3), Mul(Num(4), phase)))
SawtoothAt(phase) == Mul(amplitude, Sub(Mul(Num(2), phase), Num(1)))

\* C17: each of the three generators returns exactly `samples` values, the
\* i-th (i = 0..samples-1) computed at t = i / samples; every value of the
\* square wave is +amplitude or -amplitude, and it is -amplitude where the
\* sine is exactly 0 or negative.
C17_Waveforms ==
    pc = "done" =>
        /\ Len(wSignal) = samples
        /\ \A i \in 0..(samples - 1) :
              LET phase == PhaseAt(Rat(i, samples))
              IN  /\ wType = "triangle" => wSignal[i + 1] = TriangleAt(phase)
                  /\ wType = "sawtooth" => wSignal[i + 1] = SawtoothAt(phase)
                  /\ wType = "square" =>
                        /\ wSignal[i + 1] \in {amplitude, Neg(amplitude)}
                        /\ wSines[i + 1] <= 0 => wSignal[i + 1] = Neg(amplitude)
                        /\ wSines[i + 1] > 0 => wSignal[i + 1] = amplitude
                        /\ (Lt(Num(0), phase) /\ Lt(phase, Rat(1, 2))) => wSines[i + 1] = 1
                        /\ Lt(Rat(1, 2), phase) => wSines[i + 1] = -1
                        /\ i = 0 => wSines[i + 1] = 0

\* a square wave of four samples over one period with both values, whose
\* first sample has a sine of exactly 0
C17_Witness ==
    /\ pc = "done" /\ wType = "square" /\ samples = 4
    /\ frequency = Num(1) /\ amplitude = Num(2)
    /\ wSines[1] = 0 /\ wSignal[1] = Num(-2) /\ wSignal[2] = Num(2)

(***************************************************************************)
(* calculateDerivative(f, x, h)                                            *)
(***************************************************************************)
\* the call for a function f of Functions: an exception of f leaves it
derivativeAt(f, x, h) ==
    LET fPlus == Call(f, Add(x, h))
        fMinus == Call(f, Sub(x, h))
    IN  IF fPlus = Throw \/ fMinus = Throw THEN Throw
        ELSE calculateDerivative(fPlus, fMinus, h)

MaxPoint == 3
DerivativePoints == {Num(i) : i \in (-MaxPoint)..MaxPoint} \cup {Rat(1, 2)}
DerivativeSteps == {Num(-1), Num(0), Rat(1, 4), Rat(1, 2), Num(1), Num(2)}

DerivInit ==
    /\ pc = "call"
    /\ ThrottleIdle
    /\ DebounceIdle
    /\ SettingsIdle
    /\ StoreIdle
    /\ CoefIdle
    /\ CalcIdle
    /\ CltIdle
    /\ FourierIdle
    /\ ExpIdle
    /\ HistIdle /\ FpIdle /\ TanIdle /\ ParseIdle /\ BinIdle /\ DistIdle /\ PopIdle /\ SmIdle
    /\ DftIdle /\ WaveIdle
    /\ dvF \in Functions
    /\ dvX \in DerivativePoints
    /\ dvH \in DerivativeSteps
    /\ dvResult = NaN

CalculateDerivative ==
    /\ pc = "call"
    /\ dvResult' = derivativeAt(dvF, dvX, dvH)
    /\ pc' = "done"
    /\ UNCHANGED <<dvF, dvX, dvH, histVars, fpVars, tanVars, parseVars, binVars, distVars, popVars, smVars, dftVars, waveVars, expVars, fourierVars, cltVars, calcVars, coefVars, storeVars, settingsVars, debounceVars, throttleVars>>

DerivNext == CalculateDerivative

SpecDerivative == DerivInit /\ [][DerivNext]_vars

(***************************************************************************)
(* Claims about calculateDerivative.                                       *)
(***************************************************************************)
\* C18: calculateDerivative(f, x, h) returns (f(x+h) - f(x-h)) / (2h); for
\* f(x) = x^2 that is 2x for every x and every h # 0, so 6 at x = 3.
C18_CentralDifference ==
    (pc = "done" /\ dvResult # Throw) =>
        /\ dvResult = Div(Sub(Call(dvF, Add(dvX, dvH)), Call(dvF, Sub(dvX, dvH))),
                          Add(dvH, dvH))
        /\ (dvF = "x^2" /\ ~IsZero(dvH)) => dvResult = Add(dvX, dvX)
        /\ (dvF = "x^2" /\ ~IsZero(dvH) /\ dvX = Num(3)) => dvResult = Num(6)

\* the derivative of x^2 at 3 with a step of 1/4
C18_Witness ==
    /\ pc = "done" /\ dvF = "x^2" /\ dvX = Num(3) /\ dvH = Rat(1, 4)
    /\ dvResult = Num(6)

(***************************************************************************)
(* exponentialPDF(x, lambda), called on its own                            *)
(***************************************************************************)
DensityPoints ==
    {Num(i) : i \in (-MaxPoint)..MaxPoint}
    \cup {Rat(-1, 2), Rat(1, 2), NegInfinity, Infinity, NaN}
DensityRates == {Num(-1), Num(0), Rat(1, 2), Num(1), Num(2), Num(3)}

ExpInit ==
    /\ pc = "call"
    /\ ThrottleIdle
    /\ DebounceIdle
    /\ SettingsIdle
    /\ StoreIdle
    /\ CoefIdle
    /\ CalcIdle
    /\ CltIdle
    /\ FourierIdle
    /\ HistIdle /\ FpIdle /\ TanIdle /\ ParseIdle /\ BinIdle /\ DistIdle /\ PopIdle /\ SmIdle
    /\ DftIdle /\ WaveIdle /\ DerivIdle
    /\ eX \in DensityPoints
    /\ eLambda \in DensityRates
    /\ ePdf = NaN

ExponentialPDF ==
    /\ pc = "call"
    /\ ePdf' = exponentialPDF(eX, eLambda)
    /\ pc' = "done"
    /\ UNCHANGED <<eX, eLambda, histVars, fpVars, tanVars, parseVars, binVars, distVars, popVars, smVars, dftVars, waveVars, derivVars, fourierVars, cltVars, calcVars, coefVars, storeVars, settingsVars, debounceVars, throttleVars>>

ExpNext == ExponentialPDF

SpecExponential == ExpInit /\ [][ExpNext]_vars

(***************************************************************************)
(* Claims about exponentialPDF.                                            *)
(***************************************************************************)
\* C19: exponentialPDF(x, lambda) is 0 for every x < 0 and
\* lambda * exp(-lambda * x) for every x >= 0; at x = 0 that is lambda.
C19_ExponentialDensity ==
    pc = "done" =>
        /\ Lt(eX, Num(0)) => ePdf = Num(0)
        /\ (Leq(Num(0), eX) /\ isFinite(eX)) =>
              LET exponent == Neg(Mul(eLambda, eX))
              IN  ePdf = IF IsZero(exponent) THEN eLambda
                         ELSE <<eLambda[1], eLambda[2], exponent[1], exponent[2]>>
        /\ IsZero(eX) => ePdf = eLambda
        /\ (eX = Infinity /\ Lt(Num(0), eLambda)) => ePdf = Num(0)

\* 2 * e^-1 at x = 1/2, lambda = 2
C19_Witness ==
    /\ pc = "done" /\ eX = Rat(1, 2) /\ eLambda = Num(2)
    /\ ePdf = <<2, 1, -1, 1>>

(***************************************************************************)
(* The visualization store's setters and the Fourier page.                 *)
(*                                                                         *)
(* A handler and the effect its state change triggers are one step: the    *)
(* effect has run before the next event is handled.                        *)
(***************************************************************************)
\* { ...slice, ...partial }
MergeKeepsOld(slice, partial) == slice
Merge(slice, partial) ==
    [key \in DOMAIN slice \cup DOMAIN partial |->
        IF key \in DOMAIN partial THEN partial[key] ELSE slice[key]]

LowerCase == <<"a", "b", "c", "d", "e", "f", "g", "h", "i", "j", "k", "l", "m",
               "n", "o", "p", "q", "r", "s", "t", "u", "v", "w", "x", "y", "z">>
UpperCase == <<"A", "B", "C", "D", "E", "F", "G", "H", "I", "J", "K", "L", "M",
               "N", "O", "P", "Q", "R", "S", "T", "U", "V", "W", "X", "Y", "Z">>

\* s.toUpperCase()
toUpperCase(s) ==
    [i \in DOMAIN s |->
        IF \E j \in DOMAIN LowerCase : LowerCase[j] = s[i]
        THEN UpperCase[CHOOSE j \in DOMAIN LowerCase : LowerCase[j] = s[i]]
        ELSE s[i]]

\* t.charAt(0).toUpperCase() + t.slice(1)
capitalize(t) == IF t = <<>> THEN <<>> ELSE toUpperCase(<<Head(t)>>) \o Tail(t)

\* the value onChange of a <select> is called with, for the option chosen:
\* <option value={option}>
optionValue(option) == option

\* the option a <select value={value}> shows: the one with that value, and
\* the first one when there is none
shownOption(options, value) ==
    IF \E i \in DOMAIN options : optionValue(options[i]) = value THEN value
    ELSE optionValue(options[1])

SIGNAL_TYPES == <<Square, Triangle, Sawtooth, Custom>>

\* options={SIGNAL_TYPES.map(t => t.charAt(0).toUpperCase() + t.slice(1))}
signalOptions == [i \in DOMAIN SIGNAL_TYPES |-> capitalize(SIGNAL_TYPES[i])]

\* switch (signalConfig.type): the case taken
switchCase(type) ==
    IF type \in {Square, Triangle, Sawtooth, Custom} THEN type ELSE NoCase

\* the series the effect puts in harmonicsData: one for each h = 1..harmonics,
\* computed from the frequency and amplitude of the time
harmonicsOf(config) ==
    {[harmonic |-> h, frequency |-> config.frequency, amplitude |-> config.amplitude] :
        h \in 1..config.harmonics}

\* what the effect sets harmonicsData to
effectHarmonics(config, show, held) == IF show THEN harmonicsOf(config) ELSE held

\* the Harmonics slider has max = 20; the model stops at MaxHarmonics
MaxHarmonics == 5
FrequencySteps == {Rat(1, 10), Num(1)}
AmplitudeSteps == {Rat(1, 10), Num(1)}

FourierInit ==
    /\ pc = "ready"
    /\ ThrottleIdle
    /\ DebounceIdle
    /\ SettingsIdle
    /\ StoreIdle
    /\ CoefIdle
    /\ CalcIdle
    /\ CltIdle
    /\ HistIdle /\ FpIdle /\ TanIdle /\ ParseIdle /\ BinIdle /\ DistIdle /\ PopIdle /\ SmIdle
    /\ DftIdle /\ WaveIdle /\ DerivIdle /\ ExpIdle
    /\ signalConfig = InitialSignalConfig
    /\ signalCase = switchCase(InitialSignalConfig.type)
    /\ showHarmonics = FALSE
    /\ selectedHarmonic = 1
    /\ harmonicsData = {}

\* setSignalConfig: set((state) => ({ signalConfig: { ...state.signalConfig, ...config } }))
setSignalConfig(slice, config) == Merge(slice, config)

\* the Signal Type select: handleTypeChange, and the effect that follows
HandleTypeChange ==
    /\ \E i \in DOMAIN signalOptions :
          /\ optionValue(signalOptions[i]) # shownOption(signalOptions, signalConfig.type)
          /\ signalConfig' = setSignalConfig(signalConfig, [type |-> optionValue(signalOptions[i])])
    /\ signalCase' = switchCase(signalConfig'.type)
    /\ harmonicsData' = effectHarmonics(signalConfig', showHarmonics, harmonicsData)
    /\ UNCHANGED <<pc, showHarmonics, selectedHarmonic, histVars, fpVars, tanVars, parseVars, binVars, distVars, popVars, smVars, dftVars, waveVars, derivVars, expVars, cltVars, calcVars, coefVars, storeVars, settingsVars, debounceVars, throttleVars>>

\* the Frequency slider: handleParameterChange, and the effect that follows
SlideFrequency ==
    /\ \E value \in FrequencySteps :
          /\ signalConfig' = setSignalConfig(signalConfig, [frequency |-> value])
    /\ signalCase' = switchCase(signalConfig'.type)
    /\ harmonicsData' = effectHarmonics(signalConfig', showHarmonics, harmonicsData)
    /\ UNCHANGED <<pc, showHarmonics, selectedHarmonic, histVars, fpVars, tanVars, parseVars, binVars, distVars, popVars, smVars, dftVars, waveVars, derivVars, expVars, cltVars, calcVars, coefVars, storeVars, settingsVars, debounceVars, throttleVars>>

\* the Amplitude slider: handleParameterChange, and the effect that follows
SlideAmplitude ==
    /\ \E value \in AmplitudeSteps :
          /\ signalConfig' = setSignalConfig(signalConfig, [amplitude |-> value])
    /\ signalCase' = switchCase(signalConfig'.type)
    /\ harmonicsData' = effectHarmonics(signalConfig', showHarmonics, harmonicsData)
    /\ UNCHANGED <<pc, showHarmonics, selectedHarmonic, histVars, fpVars, tanVars, parseVars, binVars, distVars, popVars, smVars, dftVars, waveVars, derivVars, expVars, cltVars, calcVars, coefVars, storeVars, settingsVars, debounceVars, throttleVars>>

\* the Harmonics slider: handleParameterChange, and the effect that follows
SlideHarmonics ==
    /\ \E value \in 1..MaxHarmonics :
          /\ signalConfig' = setSignalConfig(signalConfig, [harmonics |-> value])
    /\ signalCase' = switchCase(signalConfig'.type)
    /\ harmonicsData' = effectHarmonics(signalConfig', showHarmonics, harmonicsData)
    /\ UNCHANGED <<pc, showHarmonics, selectedHarmonic, histVars, fpVars, tanVars, parseVars, binVars, distVars, popVars, smVars, dftVars, waveVars, derivVars, expVars, cltVars, calcVars, coefVars, storeVars, settingsVars, debounceVars, throttleVars>>

\* the Show Harmonics checkbox, and the effect that follows
ToggleShowHarmonics ==
    /\ showHarmonics' = ~showHarmonics
    /\ signalCase' = switchCase(signalConfig.type)
    /\ harmonicsData' = effectHarmonics(signalConfig, showHarmonics', harmonicsData)
    /\ UNCHANGED <<pc, signalConfig, selectedHarmonic, histVars, fpVars, tanVars, parseVars, binVars, distVars, popVars, smVars, dftVars, waveVars, derivVars, expVars, cltVars, calcVars, coefVars, storeVars, settingsVars, debounceVars, throttleVars>>

\* the Selected Harmonic slider (min 1, max signalConfig.harmonics), which
\* is rendered while showHarmonics holds: handleHarmonicChange
HandleHarmonicChange ==
    /\ showHarmonics
    /\ \E harmonic \in 1..signalConfig.harmonics : selectedHarmonic' = harmonic
    /\ UNCHANGED <<pc, signalConfig, signalCase, showHarmonics, harmonicsData, histVars, fpVars, tanVars, parseVars, binVars, distVars, popVars, smVars, dftVars, waveVars, derivVars, expVars, cltVars, calcVars, coefVars, storeVars, settingsVars, debounceVars, throttleVars>>

FourierNext ==
    \/ HandleTypeChange
    \/ SlideFrequency
    \/ SlideAmplitude
    \/ SlideHarmonics
    \/ ToggleShowHarmonics
    \/ HandleHarmonicChange

SpecFourier == FourierInit /\ [][FourierNext]_vars

(***************************************************************************)
(* Claims about the Fourier page.                                          *)
(***************************************************************************)
\* C22: in every state reachable through the page's controls signalConfig
\* has a type among square, triangle, sawtooth and custom, frequency > 0,
\* amplitude >= 0 and harmonics >= 1, so the switch of the effect matches
\* one of its four cases.
C22_SignalConfigValid ==
    /\ signalConfig.type \in
          {<<"s", "q", "u", "a", "r", "e">>, <<"t", "r", "i", "a", "n", "g", "l", "e">>,
           <<"s", "a", "w", "t", "o", "o", "t", "h">>, <<"c", "u", "s", "t", "o", "m">>}
    /\ Lt(Num(0), signalConfig.frequency)
    /\ Leq(Num(0), signalConfig.amplitude)
    /\ signalConfig.harmonics >= 1
    /\ signalCase # NoCase

\* C26: in every state reachable by the harmonics slider, the selected
\* harmonic slider and the Show Harmonics checkbox, selectedHarmonic is in
\* 1..signalConfig.harmonics, so whenever the harmonic chart is shown its
\* filter (harmonic === selectedHarmonic) selects a non-empty series
\* computed from the current signalConfig.
C26_SelectedHarmonicInRange ==
    /\ selectedHarmonic \in 1..signalConfig.harmonics
    /\ showHarmonics =>
          LET shown == {d \in harmonicsData : d.harmonic = selectedHarmonic}
          IN  /\ shown # {}
              /\ \A d \in shown :
                    /\ d.frequency = signalConfig.frequency
                    /\ d.amplitude = signalConfig.amplitude

(***************************************************************************)
(* The Central Limit page.                                                 *)
(*                                                                         *)
(* The sliders' ranges (sample size 5..100, number of samples 100..5000,   *)
(* population size 1000..20000) are scaled down to a few values each.      *)
(* The statistics, the histograms and the theoretical curve the effect     *)
(* also sets are not held: they are computed after population and          *)
(* sampleMeans and change neither.                                         *)
(***************************************************************************)
POPULATION_TYPES == <<Uniform, Normal, Exponential, Binomial>>

\* options={POPULATION_TYPES.map(t => t.charAt(0).toUpperCase() + t.slice(1))}
populationOptions == [i \in DOMAIN POPULATION_TYPES |-> capitalize(POPULATION_TYPES[i])]

\* the string of the type, as generatePopulation's switch compares it
typeString(type) ==
    CASE type = Uniform -> "uniform"
      [] type = Normal -> "normal"
      [] type = Exponential -> "exponential"
      [] type = Binomial -> "binomial"
      [] OTHER -> "other"

\* the loop for (x = minVal; x <= maxVal; x += step) with
\* step = (maxVal - minVal) / 100 ends, unless step is 0
loopEnds(newSampleMeans) ==
    LET minVal == MathMinAll(newSampleMeans)
        maxVal == MathMaxAll(newSampleMeans)
        step == Div(Sub(maxVal, minVal), Num(100))
    IN  ~(Leq(minVal, maxVal) /\ step = Num(0))

\* what a run of the effect can set population and sampleMeans to
effectOutcomes(params) ==
    UNION {{[population |-> newPopulation, sampleMeans |-> newSampleMeans] :
               newSampleMeans \in generateSampleMeans(newPopulation, params.sampleSize, params.numSamples)} :
           newPopulation \in generatePopulation(typeString(params.populationType), params.populationSize, NoParams)}

MaxPopulationSize == 2
SampleSizeSteps == {1, 2}
NumSamplesSteps == {1, 2}

CltInit ==
    /\ pc = "mounted"
    /\ ThrottleIdle
    /\ DebounceIdle
    /\ SettingsIdle
    /\ StoreIdle
    /\ CoefIdle
    /\ CalcIdle
    /\ HistIdle /\ FpIdle /\ TanIdle /\ ParseIdle /\ BinIdle /\ DistIdle /\ PopIdle /\ SmIdle
    /\ DftIdle /\ WaveIdle /\ DerivIdle /\ ExpIdle /\ FourierIdle
    /\ cltParams = InitialCLTParams
    /\ cltPopulation = <<>>
    /\ cltSampleMeans = <<>>
    /\ isSimulating = FALSE

\* the effect, run for the parameters params: setIsSimulating(true), the
\* two arrays, and setIsSimulating(false) in the finally block.  A run
\* whose last loop does not end never returns: nothing it set is rendered
\* and no control is served again.
Effect(params) ==
    \E run \in effectOutcomes(params) :
        IF loopEnds(run.sampleMeans)
        THEN /\ cltPopulation' = run.population
             /\ cltSampleMeans' = run.sampleMeans
             /\ isSimulating' = FALSE
             /\ pc' = "ready"
        ELSE /\ UNCHANGED <<cltPopulation, cltSampleMeans, isSimulating>>
             /\ pc' = "hung"

\* the effect of the first render
Mount ==
    /\ pc = "mounted"
    /\ Effect(cltParams)
    /\ UNCHANGED <<cltParams, histVars, fpVars, tanVars, parseVars, binVars, distVars, popVars, smVars, dftVars, waveVars, derivVars, expVars, fourierVars, calcVars, coefVars, storeVars, settingsVars, debounceVars, throttleVars>>

\* setCLTParams: set((state) => ({ cltParams: { ...state.cltParams, ...params } }))
setCLTParams(slice, params) == Merge(slice, params)

\* the Population Type select: handlePopulationTypeChange, and the effect
HandlePopulationTypeChange ==
    /\ pc = "ready"
    /\ \E i \in DOMAIN populationOptions :
          /\ optionValue(populationOptions[i]) # shownOption(populationOptions, cltParams.populationType)
          /\ cltParams' = setCLTParams(cltParams, [populationType |-> optionValue(populationOptions[i])])
    /\ Effect(cltParams')
    /\ UNCHANGED <<histVars, fpVars, tanVars, parseVars, binVars, distVars, popVars, smVars, dftVars, waveVars, derivVars, expVars, fourierVars, calcVars, coefVars, storeVars, settingsVars, debounceVars, throttleVars>>

\* the three sliders: handleParameterChange, and the effect
SlideSampleSize ==
    /\ pc = "ready"
    /\ \E value \in SampleSizeSteps : cltParams' = setCLTParams(cltParams, [sampleSize |-> value])
    /\ Effect(cltParams')
    /\ UNCHANGED <<histVars, fpVars, tanVars, parseVars, binVars, distVars, popVars, smVars, dftVars, waveVars, derivVars, expVars, fourierVars, calcVars, coefVars, storeVars, settingsVars, debounceVars, throttleVars>>

SlideNumSamples ==
    /\ pc = "ready"
    /\ \E value \in NumSamplesSteps : cltParams' = setCLTParams(cltParams, [numSamples |-> value])
    /\ Effect(cltParams')
    /\ UNCHANGED <<histVars, fpVars, tanVars, parseVars, binVars, distVars, popVars, smVars, dftVars, waveVars, derivVars, expVars, fourierVars, calcVars, coefVars, storeVars, settingsVars, debounceVars, throttleVars>>

SlidePopulationSize ==
    /\ pc = "ready"
    /\ \E value \in 1..MaxPopulationSize : cltParams' = setCLTParams(cltParams, [populationSize |-> value])
    /\ Effect(cltParams')
    /\ UNCHANGED <<histVars, fpVars, tanVars, parseVars, binVars, distVars, popVars, smVars, dftVars, waveVars, derivVars, expVars, fourierVars, calcVars, coefVars, storeVars, settingsVars, debounceVars, throttleVars>>

CltNext ==
    \/ Mount
    \/ HandlePopulationTypeChange
    \/ SlideSampleSize
    \/ SlideNumSamples
    \/ SlidePopulationSize

SpecCentralLimit == CltInit /\ [][CltNext]_vars

(***************************************************************************)
(* Claims about the Central Limit page.                                    *)
(***************************************************************************)
\* C25: after any sequence of changes to the page's controls, once the
\* recomputation effect has run, population has exactly
\* cltParams.populationSize elements, sampleMeans has exactly
\* cltParams.numSamples elements, every sample mean is finite and
\* isSimulating is false.
C25_RecomputedSizes ==
    pc = "ready" =>
        /\ Len(cltPopulation) = cltParams.populationSize
        /\ Len(cltSampleMeans) = cltParams.numSamples
        /\ \A i \in DOMAIN cltSampleMeans :
              cltSampleMeans[i] \notin {NaN, Infinity, NegInfinity, Undefined}
        /\ ~isSimulating

(***************************************************************************)
(* The Calculus page.                                                      *)
(*                                                                         *)
(* The state is the store's calculusParams, which is all the handlers read *)
(* and write; the chart data the effect derives from it is not held.       *)
(***************************************************************************)
\* setCalculusParams: set((state) => ({ calculusParams: { ...state.calculusParams, ...params } }))
setCalculusParams(slice, params) == Merge(slice, params)

\* parseFloat of the text of a number input: the number typed, and NaN for
\* the empty field
MaxRange == 5
Typed == {Num(i) : i \in (0 - MaxRange)..MaxRange} \cup {NaN}

\* formulas typed or picked
Formulas == {"x^2", "x", "sin(x)"}

\* positions of the Point Position slider (min = range.min, max = range.max)
sliderPositions(min, max) == {v \in Typed : Leq(min, v) /\ Leq(v, max)}

CalcInit ==
    /\ pc = "ready"
    /\ ThrottleIdle
    /\ DebounceIdle
    /\ SettingsIdle
    /\ StoreIdle
    /\ CoefIdle
    /\ HistIdle /\ FpIdle /\ TanIdle /\ ParseIdle /\ BinIdle /\ DistIdle /\ PopIdle /\ SmIdle
    /\ DftIdle /\ WaveIdle /\ DerivIdle /\ ExpIdle /\ FourierIdle /\ CltIdle
    /\ calculusParams = InitialCalculusParams

\* the formula input and the quick picks: handleFunctionChange
HandleFunctionChange ==
    /\ \E newFunction \in Formulas :
          calculusParams' = setCalculusParams(calculusParams, [function |-> newFunction])
    /\ UNCHANGED <<pc, histVars, fpVars, tanVars, parseVars, binVars, distVars, popVars, smVars, dftVars, waveVars, derivVars, expVars, fourierVars, cltVars, coefVars, storeVars, settingsVars, debounceVars, throttleVars>>

\* the Point Position slider: handlePointChange
HandlePointChange ==
    /\ \E newPoint \in sliderPositions(calculusParams.range.min, calculusParams.range.max) :
          calculusParams' = setCalculusParams(calculusParams, [point |-> newPoint])
    /\ UNCHANGED <<pc, histVars, fpVars, tanVars, parseVars, binVars, distVars, popVars, smVars, dftVars, waveVars, derivVars, expVars, fourierVars, cltVars, coefVars, storeVars, settingsVars, debounceVars, throttleVars>>

\* handleRangeChange(min, max)
handleRangeChange(params, min, max) ==
    setCalculusParams(params, [range |-> [min |-> min, max |-> max, step |-> params.range.step]])

\* the X Min input: handleRangeChange(parseFloat(value), calculusParams.range.max)
ChangeXMin ==
    /\ \E value \in Typed :
          calculusParams' = handleRangeChange(calculusParams, value, calculusParams.range.max)
    /\ UNCHANGED <<pc, histVars, fpVars, tanVars, parseVars, binVars, distVars, popVars, smVars, dftVars, waveVars, derivVars, expVars, fourierVars, cltVars, coefVars, storeVars, settingsVars, debounceVars, throttleVars>>

\* the X Max input: handleRangeChange(calculusParams.range.min, parseFloat(value))
ChangeXMax ==
    /\ \E value \in Typed :
          calculusParams' = handleRangeChange(calculusParams, calculusParams.range.min, value)
    /\ UNCHANGED <<pc, histVars, fpVars, tanVars, parseVars, binVars, distVars, popVars, smVars, dftVars, waveVars, derivVars, expVars, fourierVars, cltVars, coefVars, storeVars, settingsVars, debounceVars, throttleVars>>

CalcNext ==
    \/ HandleFunctionChange
    \/ HandlePointChange
    \/ ChangeXMin
    \/ ChangeXMax

SpecCalculus == CalcInit /\ [][CalcNext]_vars

(***************************************************************************)
(* Claims about the Calculus page.                                         *)
(***************************************************************************)
\* C23: in every state reachable through the page's controls
\* calculusParams.range has min <= max and step > 0, and a change of the
\* range leaves range.step, the function string and the point unchanged.
C23_RangeOrdered ==
    /\ [](/\ Leq(calculusParams.range.min, calculusParams.range.max)
          /\ Lt(Num(0), calculusParams.range.step))
    /\ [][calculusParams'.range # calculusParams.range =>
             /\ calculusParams'.range.step = calculusParams.range.step
             /\ calculusParams'.function = calculusParams.function
             /\ calculusParams'.point = calculusParams.point]_vars

\* the part of C23 the code keeps: the step stays positive, and a change of
\* the range changes nothing but min and max
C23_StepAndOthersKept ==
    /\ [](Lt(Num(0), calculusParams.range.step))
    /\ [][calculusParams'.range # calculusParams.range =>
             /\ calculusParams'.range.step = calculusParams.range.step
             /\ calculusParams'.function = calculusParams.function
             /\ calculusParams'.point = calculusParams.point]_vars

(***************************************************************************)
(* binomialCoefficient(n, k), one iteration of its loop at a time          *)
(***************************************************************************)
\* result * (n - i + 1) / i
loopStepOffByOne(result, n, i) == Div(Mul(result, Num(n - i)), Num(i))
loopStep(result, n, i) == Div(Mul(result, Num(n - i + 1)), Num(i))

CoefInit ==
    /\ pc = "call"
    /\ ThrottleIdle
    /\ DebounceIdle
    /\ SettingsIdle
    /\ StoreIdle
    /\ HistIdle /\ FpIdle /\ TanIdle /\ ParseIdle /\ BinIdle /\ DistIdle /\ PopIdle /\ SmIdle
    /\ DftIdle /\ WaveIdle /\ DerivIdle /\ ExpIdle /\ FourierIdle /\ CltIdle /\ CalcIdle
    /\ cN \in 0..MaxN
    /\ cK \in (0 - 1)..(MaxN + 1)
    /\ cI = 0
    /\ cResult = Undefined

\* the two early returns, and let result = 1 with the loop's i = 1
CoefficientEnter ==
    /\ pc = "call"
    /\ IF cK < 0 \/ cK > cN THEN cResult' = Num(0) /\ pc' = "done" /\ UNCHANGED cI
       ELSE IF cK = 0 \/ cK = cN THEN cResult' = Num(1) /\ pc' = "done" /\ UNCHANGED cI
       ELSE cResult' = Num(1) /\ cI' = 1 /\ pc' = "loop"
    /\ UNCHANGED <<cN, cK, histVars, fpVars, tanVars, parseVars, binVars, distVars, popVars, smVars, dftVars, waveVars, derivVars, expVars, fourierVars, cltVars, calcVars, storeVars, settingsVars, debounceVars, throttleVars>>

\* one iteration: i <= k, the assignment to result, i++
CoefficientIterate ==
    /\ pc = "loop"
    /\ cI <= cK
    /\ cResult' = loopStep(cResult, cN, cI)
    /\ cI' = cI + 1
    /\ UNCHANGED <<pc, cN, cK, histVars, fpVars, tanVars, parseVars, binVars, distVars, popVars, smVars, dftVars, waveVars, derivVars, expVars, fourierVars, cltVars, calcVars, storeVars, settingsVars, debounceVars, throttleVars>>

\* the loop ends: return result
CoefficientReturn ==
    /\ pc = "loop"
    /\ ~(cI <= cK)
    /\ pc' = "done"
    /\ UNCHANGED <<cN, cK, cI, cResult, histVars, fpVars, tanVars, parseVars, binVars, distVars, popVars, smVars, dftVars, waveVars, derivVars, expVars, fourierVars, cltVars, calcVars, storeVars, settingsVars, debounceVars, throttleVars>>

CoefNext ==
    \/ CoefficientEnter
    \/ CoefficientIterate
    \/ CoefficientReturn

SpecCoefficient == CoefInit /\ [][CoefNext]_vars

(***************************************************************************)
(* Claims about binomialCoefficient.                                       *)
(***************************************************************************)
\* C(n, k) by Pascal's rule
RECURSIVE Pascal(_, _)
Pascal(n, k) ==
    IF k < 0 \/ k > n THEN 0
    ELSE IF k = 0 \/ k = n THEN 1
    ELSE Pascal(n - 1, k - 1) + Pascal(n - 1, k)

StoreCLTParams ==
    [populationType |-> Uniform, sampleSize |-> 30, numSamples |-> 1000, populationSize |-> 10000]

\* setDistributionParams: set((state) => ({ distributionParams: { ...state.distributionParams, ...params } }))
setDistributionParams(slice, params) == Merge(slice, params)

\* the partials that give some of the keys of values their value in it
Partials(values) == {[key \in keys |-> values[key]] : keys \in SUBSET DOMAIN values}

CalculusPartials ==
    Partials([function |-> "sin(x)", point |-> Num(1),
              range |-> [min |-> Num(0), max |-> Num(1), step |-> Rat(1, 2)]])
DistributionPartials == Partials([type |-> "poisson", mean |-> Num(3), stdDev |-> Num(2)])
SignalPartials ==
    Partials([type |-> Triangle, frequency |-> Num(2), amplitude |-> Rat(1, 2), harmonics |-> 7])
CLTPartials ==
    Partials([populationType |-> Normal, sampleSize |-> 5, numSamples |-> 100, populationSize |-> 1000])
Visualizations == {"calculus", "fourier"}

\* setter calls made in one run
MaxCalls == 2

StoreInit ==
    /\ pc = "ready"
    /\ ThrottleIdle
    /\ DebounceIdle
    /\ SettingsIdle
    /\ HistIdle /\ FpIdle /\ TanIdle /\ ParseIdle /\ BinIdle /\ DistIdle /\ PopIdle /\ SmIdle
    /\ DftIdle /\ WaveIdle /\ DerivIdle /\ ExpIdle /\ CoefIdle
    /\ signalCase = NoCase /\ showHarmonics = FALSE /\ selectedHarmonic = 1 /\ harmonicsData = {}
    /\ cltPopulation = <<>> /\ cltSampleMeans = <<>> /\ isSimulating = FALSE
    /\ calculusParams = InitialCalculusParams
    /\ distributionParams = InitialDistributionParams
    /\ signalConfig = InitialSignalConfig
    /\ cltParams = StoreCLTParams
    /\ isAnimating = FALSE
    /\ selectedVisualization = "calculus"
    /\ lastCall = NoCall
    /\ storeCalls = 0

SetCalculusParams ==
    /\ storeCalls < MaxCalls
    /\ \E params \in CalculusPartials :
          /\ calculusParams' = setCalculusParams(calculusParams, params)
          /\ lastCall' = [setter |-> "setCalculusParams", params |-> params]
    /\ storeCalls' = storeCalls + 1
    /\ UNCHANGED <<pc, distributionParams, signalConfig, cltParams, isAnimating, selectedVisualization, signalCase, showHarmonics, selectedHarmonic, harmonicsData, cltPopulation, cltSampleMeans, isSimulating, histVars, fpVars, tanVars, parseVars, binVars, distVars, popVars, smVars, dftVars, waveVars, derivVars, expVars, coefVars, settingsVars, debounceVars, throttleVars>>

SetDistributionParams ==
    /\ storeCalls < MaxCalls
    /\ \E params \in DistributionPartials :
          /\ distributionParams' = setDistributionParams(distributionParams, params)
          /\ lastCall' = [setter |-> "setDistributionParams", params |-> params]
    /\ storeCalls' = storeCalls + 1
    /\ UNCHANGED <<pc, calculusParams, signalConfig, cltParams, isAnimating, selectedVisualization, signalCase, showHarmonics, selectedHarmonic, harmonicsData, cltPopulation, cltSampleMeans, isSimulating, histVars, fpVars, tanVars, parseVars, binVars, distVars, popVars, smVars, dftVars, waveVars, derivVars, expVars, coefVars, settingsVars, debounceVars, throttleVars>>

SetSignalConfig ==
    /\ storeCalls < MaxCalls
    /\ \E config \in SignalPartials :
          /\ signalConfig' = setSignalConfig(signalConfig, config)
          /\ lastCall' = [setter |-> "setSignalConfig", params |-> config]
    /\ storeCalls' = storeCalls + 1
    /\ UNCHANGED <<pc, calculusParams, distributionParams, cltParams, isAnimating, selectedVisualization, signalCase, showHarmonics, selectedHarmonic, harmonicsData, cltPopulation, cltSampleMeans, isSimulating, histVars, fpVars, tanVars, parseVars, binVars, distVars, popVars, smVars, dftVars, waveVars, derivVars, expVars, coefVars, settingsVars, debounceVars, throttleVars>>

SetCLTParams ==
    /\ storeCalls < MaxCalls
    /\ \E params \in CLTPartials :
          /\ cltParams' = setCLTParams(cltParams, params)
          /\ lastCall' = [setter |-> "setCLTParams", params |-> params]
    /\ storeCalls' = storeCalls + 1
    /\ UNCHANGED <<pc, calculusParams, distributionParams, signalConfig, isAnimating, selectedVisualization, signalCase, showHarmonics, selectedHarmonic, harmonicsData, cltPopulation, cltSampleMeans, isSimulating, histVars, fpVars, tanVars, parseVars, binVars, distVars, popVars, smVars, dftVars, waveVars, derivVars, expVars, coefVars, settingsVars, debounceVars, throttleVars>>

\* setIsAnimating: set({ isAnimating: animating })
SetIsAnimating ==
    /\ storeCalls < MaxCalls
    /\ \E animating \in BOOLEAN :
          /\ isAnimating' = animating
          /\ lastCall' = [setter |-> "setIsAnimating", params |-> animating]
    /\ storeCalls' = storeCalls + 1
    /\ UNCHANGED <<pc, calculusParams, distributionParams, signalConfig, cltParams, selectedVisualization, signalCase, showHarmonics, selectedHarmonic, harmonicsData, cltPopulation, cltSampleMeans, isSimulating, histVars, fpVars, tanVars, parseVars, binVars, distVars, popVars, smVars, dftVars, waveVars, derivVars, expVars, coefVars, settingsVars, debounceVars, throttleVars>>

\* setSelectedVisualization: set({ selectedVisualization: viz })
SetSelectedVisualization ==
    /\ storeCalls < MaxCalls
    /\ \E viz \in Visualizations :
          /\ selectedVisualization' = viz
          /\ lastCall' = [setter |-> "setSelectedVisualization", params |-> viz]
    /\ storeCalls' = storeCalls + 1
    /\ UNCHANGED <<pc, calculusParams, distributionParams, signalConfig, cltParams, isAnimating, signalCase, showHarmonics, selectedHarmonic, harmonicsData, cltPopulation, cltSampleMeans, isSimulating, histVars, fpVars, tanVars, parseVars, binVars, distVars, popVars, smVars, dftVars, waveVars, derivVars, expVars, coefVars, settingsVars, debounceVars, throttleVars>>

StoreNext ==
    \/ SetCalculusParams
    \/ SetDistributionParams
    \/ SetSignalConfig
    \/ SetCLTParams
    \/ SetIsAnimating
    \/ SetSelectedVisualization

SpecStore == StoreInit /\ [][StoreNext]_vars

(***************************************************************************)
(* Claims about the store's setters.                                       *)
(***************************************************************************)
\* the slice after the call has the keys of before and of the partial, the
\* partial's value for each of the partial's keys and the old value for
\* every other key
ShallowMerged(before, partial, after) ==
    /\ DOMAIN after = DOMAIN before \cup DOMAIN partial
    /\ \A key \in DOMAIN partial : after[key] = partial[key]
    /\ \A key \in DOMAIN before \ DOMAIN partial : after[key] = before[key]

\* the four slices, by the setter that writes them
SliceOf(setter, calculus, distribution, config, clt) ==
    CASE setter = "setCalculusParams" -> calculus
      [] setter = "setDistributionParams" -> distribution
      [] setter = "setSignalConfig" -> config
      [] setter = "setCLTParams" -> clt

SliceSetters == {"setCalculusParams", "setDistributionParams", "setSignalConfig", "setCLTParams"}

\* C27: each of the four slice setters shallow-merges its partial into its
\* own slice: the keys of the partial take the partial's values, the other
\* keys of the slice keep theirs, the other slices and the UI fields are
\* unchanged, and an empty partial leaves every value as it was.
C27_SettersShallowMerge ==
    [][lastCall'.setter \in SliceSetters =>
          /\ \A setter \in SliceSetters :
                LET before == SliceOf(setter, calculusParams, distributionParams, signalConfig, cltParams)
                    after == SliceOf(setter, calculusParams', distributionParams', signalConfig', cltParams')
                IN  IF setter = lastCall'.setter
                    THEN /\ ShallowMerged(before, lastCall'.params, after)
                         /\ DOMAIN lastCall'.params = {} => after = before
                    ELSE after = before
          /\ isAnimating' = isAnimating
          /\ selectedVisualization' = selectedVisualization]_vars

\* setSignalConfig({frequency: 2, harmonics: 7}) after setCLTParams changed
\* the sample size: type and amplitude are kept, and so is the other slice
C27_Witness ==
    /\ lastCall = [setter |-> "setSignalConfig", params |-> [frequency |-> Num(2), harmonics |-> 7]]
    /\ signalConfig = [type |-> Square, frequency |-> Num(2), amplitude |-> Num(1), harmonics |-> 7]
    /\ cltParams.sampleSize = 5
    /\ cltParams.numSamples = 1000

(***************************************************************************)
(* The settings store and its setters.                                     *)
(***************************************************************************)
\* Math.max(0, Math.min(10, places))
clampDecimalPlaces(places) == MathMax(Num(0), MathMin(Num(10), places))

\* Math.max(100, Math.min(10000, points))
clampMaxDataPoints(points) == MathMax(Num(100), MathMin(Num(10000), points))

\* numbers a setter can be called with
SettingNumbers ==
    {NaN, Infinity, NegInfinity, Num(-1), Num(0), Rat(5, 2), Num(10), Num(11),
     Num(99), Num(100), Num(5000), Num(10000), Num(10001)}

SettingsInit ==
    /\ pc = "ready"
    /\ ThrottleIdle
    /\ DebounceIdle
    /\ HistIdle /\ FpIdle /\ TanIdle /\ ParseIdle /\ BinIdle /\ DistIdle /\ PopIdle /\ SmIdle
    /\ DftIdle /\ WaveIdle /\ DerivIdle /\ ExpIdle /\ FourierIdle /\ CltIdle /\ CalcIdle
    /\ CoefIdle /\ StoreIdle
    /\ theme = "light"
    /\ animationsEnabled = TRUE
    /\ decimalPlaces = Num(3)
    /\ chartQuality = "medium"
    /\ maxDataPoints = Num(1000)

\* setTheme: set({ theme })
SetTheme ==
    /\ \E newTheme \in {"light", "dark"} : theme' = newTheme
    /\ UNCHANGED <<pc, animationsEnabled, decimalPlaces, chartQuality, maxDataPoints, histVars, fpVars, tanVars, parseVars, binVars, distVars, popVars, smVars, dftVars, waveVars, derivVars, expVars, fourierVars, cltVars, calcVars, coefVars, storeVars, debounceVars, throttleVars>>

\* setAnimationsEnabled: set({ animationsEnabled: enabled })
SetAnimationsEnabled ==
    /\ \E enabled \in BOOLEAN : animationsEnabled' = enabled
    /\ UNCHANGED <<pc, theme, decimalPlaces, chartQuality, maxDataPoints, histVars, fpVars, tanVars, parseVars, binVars, distVars, popVars, smVars, dftVars, waveVars, derivVars, expVars, fourierVars, cltVars, calcVars, coefVars, storeVars, debounceVars, throttleVars>>

\* setDecimalPlaces: set({ decimalPlaces: Math.max(0, Math.min(10, places)) })
SetDecimalPlaces ==
    /\ \E places \in SettingNumbers : decimalPlaces' = clampDecimalPlaces(places)
    /\ UNCHANGED <<pc, theme, animationsEnabled, chartQuality, maxDataPoints, histVars, fpVars, tanVars, parseVars, binVars, distVars, popVars, smVars, dftVars, waveVars, derivVars, expVars, fourierVars, cltVars, calcVars, coefVars, storeVars, debounceVars, throttleVars>>

\* setChartQuality: set({ chartQuality: quality })
SetChartQuality ==
    /\ \E quality \in {"low", "medium", "high"} : chartQuality' = quality
    /\ UNCHANGED <<pc, theme, animationsEnabled, decimalPlaces, maxDataPoints, histVars, fpVars, tanVars, parseVars, binVars, distVars, popVars, smVars, dftVars, waveVars, derivVars, expVars, fourierVars, cltVars, calcVars, coefVars, storeVars, debounceVars, throttleVars>>

\* setMaxDataPoints: set({ maxDataPoints: Math.max(100, Math.min(10000, points)) })
SetMaxDataPoints ==
    /\ \E points \in SettingNumbers : maxDataPoints' = clampMaxDataPoints(points)
    /\ UNCHANGED <<pc, theme, animationsEnabled, decimalPlaces, chartQuality, histVars, fpVars, tanVars, parseVars, binVars, distVars, popVars, smVars, dftVars, waveVars, derivVars, expVars, fourierVars, cltVars, calcVars, coefVars, storeVars, debounceVars, throttleVars>>

SettingsNext ==
    \/ SetTheme
    \/ SetAnimationsEnabled
    \/ SetDecimalPlaces
    \/ SetChartQuality
    \/ SetMaxDataPoints

SpecSettings == SettingsInit /\ [][SettingsNext]_vars

(***************************************************************************)
(* Claims about the settings store.                                        *)
(***************************************************************************)
\* C28: after any sequence of setter calls with arbitrary numeric
\* arguments decimalPlaces is in [0, 10] and maxDataPoints is in
\* [100, 10000], and the setters of theme, animations and chart quality
\* leave both unchanged.
C28_SettingsInRange ==
    /\ [](/\ Leq(Num(0), decimalPlaces) /\ Leq(decimalPlaces, Num(10))
          /\ Leq(Num(100), maxDataPoints) /\ Leq(maxDataPoints, Num(10000)))
    /\ [][(theme' # theme \/ animationsEnabled' # animationsEnabled \/ chartQuality' # chartQuality) =>
             /\ decimalPlaces' = decimalPlaces
             /\ maxDataPoints' = maxDataPoints]_vars

\* the part of C28 the code keeps: either value is in its range unless it
\* is NaN, and the other setters leave both unchanged
C28_InRangeUnlessNaN ==
    /\ [](/\ decimalPlaces = NaN \/ (Leq(Num(0), decimalPlaces) /\ Leq(decimalPlaces, Num(10)))
          /\ maxDataPoints = NaN \/ (Leq(Num(100), maxDataPoints) /\ Leq(maxDataPoints, Num(10000))))
    /\ [][(theme' # theme \/ animationsEnabled' # animationsEnabled \/ chartQuality' # chartQuality) =>
             /\ decimalPlaces' = decimalPlaces
             /\ maxDataPoints' = maxDataPoints]_vars

(***************************************************************************)
(* debounce(func, wait)                                                    *)
(*                                                                         *)
(* Time is counted in ticks.  A timer set with setTimeout(callback, wait)  *)
(* is run by the event loop once wait has passed, at that time or later.   *)
(***************************************************************************)
\* clearTimeout(timeout)
clearTimeoutNothing(timers, timeout) == timers
clearTimeout(timers, timeout) == {timer \in timers : timer.id # timeout}

\* setTimeout(callback, wait), the callback being func.apply(this, args)
setTimeoutAtOnce(timers, id, args, now, wait) ==
    timers \cup {[id |-> id, args |-> args, due |-> now]}
setTimeout(timers, id, args, now, wait) ==
    timers \cup {[id |-> id, args |-> args, due |-> now + wait]}

MaxTime == 3
MaxWrapperCalls == 2
Waits == {0, 1, 2}
WrapperArgs == {"a", "b"}

DebounceInit ==
    /\ pc = "ready"
    /\ ThrottleIdle
    /\ HistIdle /\ FpIdle /\ TanIdle /\ ParseIdle /\ BinIdle /\ DistIdle /\ PopIdle /\ SmIdle
    /\ DftIdle /\ WaveIdle /\ DerivIdle /\ ExpIdle /\ FourierIdle /\ CltIdle /\ CalcIdle
    /\ CoefIdle /\ StoreIdle /\ SettingsIdle
    /\ dbWait \in Waits
    /\ dbNow = 0
    /\ dbTimers = {}
    /\ dbTimeout = 0
    /\ dbCalls = <<>>
    /\ dbInvoked = <<>>

\* a call of the wrapper: clearTimeout(timeout); timeout = setTimeout(...)
DebounceCall ==
    /\ Len(dbCalls) < MaxWrapperCalls
    /\ dbNow + dbWait <= MaxTime
    /\ \E args \in WrapperArgs :
          /\ dbTimers' = setTimeout(clearTimeout(dbTimers, dbTimeout), Len(dbCalls) + 1, args, dbNow, dbWait)
          /\ dbCalls' = Append(dbCalls, [args |-> args, at |-> dbNow])
    /\ dbTimeout' = Len(dbCalls) + 1
    /\ UNCHANGED <<pc, dbWait, dbNow, dbInvoked, histVars, fpVars, tanVars, parseVars, binVars, distVars, popVars, smVars, dftVars, waveVars, derivVars, expVars, fourierVars, cltVars, calcVars, coefVars, storeVars, settingsVars, throttleVars>>

\* the event loop runs a timer that is due: func.apply(this, args)
DebounceFire ==
    /\ \E timer \in dbTimers :
          /\ timer.due <= dbNow
          /\ dbTimers' = dbTimers \ {timer}
          /\ dbInvoked' = Append(dbInvoked, [args |-> timer.args, at |-> dbNow, timer |-> timer.id, calls |-> Len(dbCalls)])
    /\ UNCHANGED <<pc, dbWait, dbNow, dbTimeout, dbCalls, histVars, fpVars, tanVars, parseVars, binVars, distVars, popVars, smVars, dftVars, waveVars, derivVars, expVars, fourierVars, cltVars, calcVars, coefVars, storeVars, settingsVars, throttleVars>>

\* time passes
DebounceTick ==
    /\ dbNow < MaxTime
    /\ dbNow' = dbNow + 1
    /\ UNCHANGED <<pc, dbWait, dbTimers, dbTimeout, dbCalls, dbInvoked, histVars, fpVars, tanVars, parseVars, binVars, distVars, popVars, smVars, dftVars, waveVars, derivVars, expVars, fourierVars, cltVars, calcVars, coefVars, storeVars, settingsVars, throttleVars>>

DebounceNext ==
    \/ DebounceCall
    \/ DebounceFire
    \/ DebounceTick

SpecDebounce == DebounceInit /\ [][DebounceNext]_vars

\* time passes, and the event loop runs a timer that stays due
SpecDebounceFair ==
    /\ DebounceInit
    /\ [][DebounceNext]_vars
    /\ WF_vars(DebounceTick)
    /\ WF_vars(DebounceFire)

(***************************************************************************)
(* Claims about debounce.  A burst is a run of calls each of which is made *)
(* while the invocation of the call before it is pending.                  *)
(***************************************************************************)
\* func was invoked for the call-th call of the wrapper
InvokedFor(call) == \E j \in DOMAIN dbInvoked : dbInvoked[j].timer = call

\* what holds of the calls and invocations made so far
DebounceSafe ==
    /\ \A j \in DOMAIN dbInvoked :
          LET invocation == dbInvoked[j]
          IN  /\ invocation.timer = invocation.calls
              /\ invocation.at >= dbCalls[invocation.calls].at + dbWait
              /\ invocation.args = dbCalls[invocation.calls].args
    /\ \A i, j \in DOMAIN dbInvoked : dbInvoked[i].timer = dbInvoked[j].timer => i = j
    /\ Cardinality(dbTimers) <= 1
    /\ \A timer \in dbTimers : timer.id = Len(dbCalls)
    /\ dbCalls # <<>> => (dbTimers # {}) # InvokedFor(Len(dbCalls))

\* C29: func is invoked only when wait has elapsed since the most recent
\* call of the wrapper, with no call in between, and with that call's
\* arguments; every call cancels the pending invocation of the call before
\* it, so each burst of calls produces exactly one invocation, for its last
\* call; and a call no other call follows is eventually invoked.
C29_DebounceInvokesLastOfBurst ==
    /\ []DebounceSafe
    /\ \A call \in 1..MaxWrapperCalls :
          (Len(dbCalls) = call) ~> (Len(dbCalls) > call \/ InvokedFor(call))

\* a burst of two calls, the second a tick after the first: func was
\* invoked once, for the second call, a tick after its timer was due
C29_Witness ==
    /\ dbWait = 1
    /\ dbCalls = <<[args |-> "a", at |-> 0], [args |-> "b", at |-> 1]>>
    /\ dbInvoked = <<[args |-> "b", at |-> 3, timer |-> 2, calls |-> 2]>>
    /\ dbTimers = {}

(***************************************************************************)
(* throttle(func, limit)                                                   *)
(***************************************************************************)
MaxThrottleCalls == 3
Limits == {0, 1, 2}

\* the callback of the reset timer: () => inThrottle = false
ResetCallback == "reset"

ThrottleInit ==
    /\ pc = "ready"
    /\ HistIdle /\ FpIdle /\ TanIdle /\ ParseIdle /\ BinIdle /\ DistIdle /\ PopIdle /\ SmIdle
    /\ DftIdle /\ WaveIdle /\ DerivIdle /\ ExpIdle /\ FourierIdle /\ CltIdle /\ CalcIdle
    /\ CoefIdle /\ StoreIdle /\ SettingsIdle /\ DebounceIdle
    /\ thLimit \in Limits
    /\ thNow = 0
    /\ inThrottle = FALSE
    /\ thTimers = {}
    /\ thLog = <<>>

CallsIn(log) == {p \in DOMAIN log : log[p].kind = "call"}

\* a call of the wrapper: if (!inThrottle) { func.apply(this, args);
\* inThrottle = true; setTimeout(() => inThrottle = false, limit) }
ThrottleCall ==
    /\ Cardinality(CallsIn(thLog)) < MaxThrottleCalls
    /\ \E args \in WrapperArgs :
          IF ~inThrottle
          THEN /\ thLog' = thLog \o <<[kind |-> "call", args |-> args, at |-> thNow],
                                      [kind |-> "invoke", args |-> args, at |-> thNow]>>
               /\ inThrottle' = TRUE
               /\ thTimers' = setTimeout(thTimers, Len(thLog) + 1, ResetCallback, thNow, thLimit)
          ELSE /\ thLog' = Append(thLog, [kind |-> "call", args |-> args, at |-> thNow])
               /\ UNCHANGED <<inThrottle, thTimers>>
    /\ UNCHANGED <<pc, thLimit, thNow, histVars, fpVars, tanVars, parseVars, binVars, distVars, popVars, smVars, dftVars, waveVars, derivVars, expVars, fourierVars, cltVars, calcVars, coefVars, storeVars, settingsVars, debounceVars>>

\* the event loop runs a reset timer that is due: inThrottle = false
ThrottleReset ==
    /\ \E timer \in thTimers :
          /\ timer.due <= thNow
          /\ thTimers' = thTimers \ {timer}
    /\ inThrottle' = FALSE
    /\ thLog' = Append(thLog, [kind |-> "reset", args |-> ResetCallback, at |-> thNow])
    /\ UNCHANGED <<pc, thLimit, thNow, histVars, fpVars, tanVars, parseVars, binVars, distVars, popVars, smVars, dftVars, waveVars, derivVars, expVars, fourierVars, cltVars, calcVars, coefVars, storeVars, settingsVars, debounceVars>>

\* time passes
ThrottleTick ==
    /\ thNow < MaxTime
    /\ thNow' = thNow + 1
    /\ UNCHANGED <<pc, thLimit, inThrottle, thTimers, thLog, histVars, fpVars, tanVars, parseVars, binVars, distVars, popVars, smVars, dftVars, waveVars, derivVars, expVars, fourierVars, cltVars, calcVars, coefVars, storeVars, settingsVars, debounceVars>>

ThrottleNext ==
    \/ ThrottleCall
    \/ ThrottleReset
    \/ ThrottleTick

SpecThrottle == ThrottleInit /\ [][ThrottleNext]_vars

(***************************************************************************)
(* Claims about throttle.                                                  *)
(***************************************************************************)
\* the invocations of func before position p of the log
InvokesBefore(p) == {q \in 1..(p - 1) : thLog[q].kind = "invoke"}

\* the call at position p invoked func
InvokedAt(p) == p < Len(thLog) /\ thLog[p + 1].kind = "invoke"

\* every invocation is made within a call, with its arguments: no call is
\* invoked later; at most one reset timer is pending; any two invocations
\* are at least limit apart
ThrottleRest ==
    /\ \A q \in DOMAIN thLog :
          thLog[q].kind = "invoke" =>
              /\ q > 1
              /\ thLog[q - 1] = [kind |-> "call", args |-> thLog[q].args, at |-> thLog[q].at]
    /\ Cardinality(thTimers) <= 1
    /\ \A q \in DOMAIN thLog :
          thLog[q].kind = "invoke" =>
              \A r \in InvokesBefore(q) : thLog[q].at - thLog[r].at >= thLimit

====
